---- MODULE Spec2Model ----
(***************************************************************************)
(* Multi-stage control of a document package (src/src/control.py).         *)
(*                                                                         *)
(* A MultiStageController owns four stages (Automatic, Legal, Financial,   *)
(* Final), each with a status, the issues of its last check, the time of   *)
(* its last check and a fixed checklist, and a ControlHistory of audit     *)
(* entries.  The operations are execute_full_control,                      *)
(* update_checklist_item, approve_stage and reject_stage.                  *)
(*                                                                         *)
(* Abstractions: texts (descriptions, messages, comments) are short tags;  *)
(* datetime.now() is the integer clock `now`, read once per operation and  *)
(* advanced by every operation that reads it; a document of a package is   *)
(* what the check reads of it: whether its file exists, the file's size    *)
(* and its status field; required_documents is its length.                 *)
(*                                                                         *)
(* The later sections model the endpoints of src/src/api.py that share one *)
(* module-level controller, the three deduplicators of requirement records *)
(* (backend/utils/deduplication.py, utils/deduplicator.py and              *)
(* _deduplicate_documents of src/backend/analyzer.py) with their           *)
(* normalization of names and their similarity scorers,                    *)
(* verify_documents of src/src/analyzer.py, the parsers of the output of   *)
(* the generator (_parse_text_output and _parse_json_output of             *)
(* src/backend/analyzer.py, fix_incomplete_json) with json.loads on the    *)
(* texts they are given, and the two analyses that call them               *)
(* (analyze_documentation and analyze).  Names are strings of ASCII        *)
(* characters, the Russian key words of the code in Latin letters; a float *)
(* is the quotient of two integers; a value of json carries its type.      *)
(***************************************************************************)
EXTENDS Integers, Sequences, FiniteSets, TLC

VARIABLES
    stages,    \* MultiStageController.stages: stage index 0..3 -> ControlStage
    history,   \* MultiStageController.history.entries
    now,       \* the value datetime.now() returns to the next operation
    lastCall,  \* the operation called last, with its arguments
    ret,       \* what that call returned
    stats,     \* DocumentDeduplicator.stats of the deduplicator instance
    reviews    \* for each package of the API's clients, the controller that a
               \* MultiStageController of its own would be after the requests
               \* made for that package, and its answer to the last of them

vars == <<stages, history, now, lastCall, ret, stats, reviews>>

---------------------------------------------------------------------------
(* Bounds of the model *)

\* Operations that read the clock in a session of the specification Spec.
MaxTime == 3

\* Operations that read the clock in a session of SpecFinalReview.
MaxReviewTime == 5

\* Operations that read the clock in a session of SpecStageIndex.
MaxIndexTime == 3

\* Operations that read the clock in a session of SpecApi.
MaxApiTime == 3

\* Longest list of the entries of DedupEntries among the inputs of SpecDedup.
MaxRecords == 2

\* Longest list among the inputs of SpecDedupLimit.
MaxInputLength == 52

\* SpecVerify: the number of requirements of a list given to verify_documents.
MaxRequired == 3

\* SpecText: the number of lines of a text given to _parse_text_output.
MaxLines == 3

\* SpecJson: the number of elements of required_documents in a json document.
MaxElements == 2

---------------------------------------------------------------------------
(* Values *)

\* Optional[str] = None of checked_by
None == "None"

\* Optional[str] = None of checked_at; timestamps are 1, 2, ...
NoneTime == 0

\* 50 * 1024 * 1024
MaxFileSize == 52428800

StageIndex == 0 .. 3

StageNames == [i \in StageIndex |->
    CASE i = 0 -> "Automatic" [] i = 1 -> "Legal"
      [] i = 2 -> "Financial" [] OTHER -> "Final"]

Statuses == {"pending", "passed", "warning", "failed"}

SystemUser == [user_id |-> "system", user_name |-> "System"]

---------------------------------------------------------------------------
(* ChecklistItem *)

\* The description of an item is a text for the reader of the checklist, one
\* for each id; the model holds a token in its place.
Description(id) == "description of " \o id

ChecklistItem(id, category, is_automatic, severity) ==
    [id |-> id, description |-> Description(id),
     category |-> category, is_automatic |-> is_automatic,
     checked |-> FALSE, checked_by |-> None, checked_at |-> NoneTime,
     comment |-> "", severity |-> severity]

mark_checked(item, user, comment, t) ==
    [item EXCEPT !.checked = TRUE, !.checked_by = user,
                 !.checked_at = t, !.comment = comment]

AutomaticChecklist == <<
    ChecklistItem("auto_01", "completeness", TRUE, "critical"),
    ChecklistItem("auto_02", "format", TRUE, "normal"),
    ChecklistItem("auto_03", "format", TRUE, "normal"),
    ChecklistItem("auto_04", "validity", TRUE, "critical"),
    ChecklistItem("auto_05", "security", TRUE, "normal"),
    ChecklistItem("auto_06", "quality", TRUE, "normal"),
    ChecklistItem("auto_07", "signatures", FALSE, "normal"),
    ChecklistItem("auto_08", "requisites", TRUE, "normal") >>

LegalChecklist == <<
    ChecklistItem("legal_01", "compliance", FALSE, "critical"),
    ChecklistItem("legal_02", "authority", FALSE, "critical"),
    ChecklistItem("legal_03", "consistency", FALSE, "normal"),
    ChecklistItem("legal_04", "compliance", FALSE, "critical"),
    ChecklistItem("legal_05", "quality", FALSE, "normal"),
    ChecklistItem("legal_06", "requisites", FALSE, "normal"),
    ChecklistItem("legal_07", "validity", FALSE, "normal"),
    ChecklistItem("legal_08", "restrictions", FALSE, "critical") >>

FinancialChecklist == <<
    ChecklistItem("fin_01", "financial", FALSE, "critical"),
    ChecklistItem("fin_02", "security", FALSE, "normal"),
    ChecklistItem("fin_03", "accounts", FALSE, "normal"),
    ChecklistItem("fin_04", "debts", FALSE, "critical"),
    ChecklistItem("fin_05", "pricing", FALSE, "critical"),
    ChecklistItem("fin_06", "taxes", FALSE, "normal"),
    ChecklistItem("fin_07", "pricing", FALSE, "normal") >>

FinalChecklist == <<
    ChecklistItem("final_01", "stages", FALSE, "critical"),
    ChecklistItem("final_02", "stages", FALSE, "critical"),
    ChecklistItem("final_03", "stages", FALSE, "critical"),
    ChecklistItem("final_04", "approval", FALSE, "critical") >>

---------------------------------------------------------------------------
(* ControlStage *)

ControlStage(name, checklist) ==
    [name |-> name, status |-> "pending", issues |-> <<>>,
     checked_at |-> NoneTime, checklist |-> checklist]

Issue(severity, message) == [severity |-> severity, message |-> message]

get_result(stage) ==
    [stage |-> stage.name, status |-> stage.status, issues |-> stage.issues,
     checked_at |-> stage.checked_at, checklist |-> stage.checklist]

\* The index of the first item of the checklist with this id, 0 when none.
RECURSIVE FindItem(_, _, _)
FindItem(checklist, item_id, k) ==
    IF k > Len(checklist) THEN 0
    ELSE IF checklist[k].id = item_id THEN k
    ELSE FindItem(checklist, item_id, k + 1)

\* update_checklist_item that unchecks an item and leaves who checked it and
\* when.
StageUpdateChecklistItemKeepsWho(stage, item_id, checked, user, comment, t) ==
    LET k == FindItem(stage.checklist, item_id, 1) IN
    IF k = 0 THEN [stage |-> stage, result |-> FALSE]
    ELSE [stage |-> [stage EXCEPT !.checklist[k] =
                        IF checked THEN mark_checked(stage.checklist[k], user, comment, t)
                        ELSE [stage.checklist[k] EXCEPT !.checked = FALSE]],
          result |-> TRUE]

\* ControlStage.update_checklist_item: the stage after the call and its result.
StageUpdateChecklistItem(stage, item_id, checked, user, comment, t) ==
    LET k == FindItem(stage.checklist, item_id, 1) IN
    IF k = 0 THEN [stage |-> stage, result |-> FALSE]
    ELSE LET item == stage.checklist[k]
             upd == IF checked
                    THEN mark_checked(item, user, comment, t)
                    ELSE [item EXCEPT !.checked = FALSE, !.checked_by = None,
                                      !.checked_at = NoneTime]
         IN [stage |-> [stage EXCEPT !.checklist[k] = upd], result |-> TRUE]

Unchecked(checklist) ==
    {k \in 1 .. Len(checklist) : ~checklist[k].checked}

CriticalUnchecked(checklist) ==
    {k \in 1 .. Len(checklist) :
        checklist[k].severity = "critical" /\ ~checklist[k].checked}

---------------------------------------------------------------------------
(* AutomaticControl *)

\* _mark_checklist_item without the test of the id: it marks every item.
mark_checklist_item_of_any_id(stage, item_id, checked, t) ==
    IF checked
    THEN [stage EXCEPT !.checklist =
              [k \in 1 .. Len(stage.checklist) |->
                  mark_checked(stage.checklist[k], "system", "auto", t)]]
    ELSE stage

mark_checklist_item(stage, item_id, checked, t) ==
    LET k == FindItem(stage.checklist, item_id, 1) IN
    IF k # 0 /\ checked
    THEN [stage EXCEPT !.checklist[k] =
              mark_checked(stage.checklist[k], "system", "auto", t)]
    ELSE stage

\* The loop over the documents: acc holds the issues and the three flags.
RECURSIVE CheckDocuments(_, _, _)
CheckDocuments(docs, k, acc) ==
    IF k > Len(docs) THEN acc
    ELSE LET doc == docs[k] IN
         IF ~doc.exists
         THEN CheckDocuments(docs, k + 1,
                  [acc EXCEPT !.issues = Append(@, Issue("critical", "not_found")),
                              !.all_formats_ok = FALSE])
         ELSE LET a1 == IF doc.size > MaxFileSize
                        THEN [acc EXCEPT
                                 !.issues = Append(@, Issue("warning", "too_big")),
                                 !.all_sizes_ok = FALSE]
                        ELSE acc
                  a2 == IF doc.status = "expired"
                        THEN [a1 EXCEPT
                                 !.issues = Append(@, Issue("blocker", "expired")),
                                 !.all_valid = FALSE]
                        ELSE a1
              IN CheckDocuments(docs, k + 1, a2)

AutomaticStatus(issues) ==
    IF \E k \in 1 .. Len(issues) : issues[k].severity = "blocker" THEN "failed"
    ELSE IF \E k \in 1 .. Len(issues) : issues[k].severity = "critical"
    THEN "warning"
    ELSE "passed"

AutomaticCheck(stage, package, t) ==
    LET docs == package.documents
        required == package.required_documents
        complete == ~(Len(docs) < required)
        issues0 == IF complete THEN <<>> ELSE <<Issue("blocker", "missing_docs")>>
        s0 == [stage EXCEPT !.checked_at = t, !.issues = <<>>]
        s1 == IF complete THEN mark_checklist_item(s0, "auto_01", TRUE, t) ELSE s0
        acc == CheckDocuments(docs, 1,
                   [issues |-> issues0, all_formats_ok |-> TRUE,
                    all_sizes_ok |-> TRUE, all_valid |-> TRUE])
        s2 == mark_checklist_item(s1, "auto_02", acc.all_formats_ok, t)
        s3 == mark_checklist_item(s2, "auto_03", acc.all_sizes_ok, t)
        s4 == mark_checklist_item(s3, "auto_04", acc.all_valid, t)
        s5 == mark_checklist_item(s4, "auto_05", TRUE, t)
        s6 == mark_checklist_item(s5, "auto_06", TRUE, t)
        s7 == mark_checklist_item(s6, "auto_08", TRUE, t)
    IN [s7 EXCEPT !.issues = acc.issues, !.status = AutomaticStatus(acc.issues)]

---------------------------------------------------------------------------
(* LegalControl, FinancialControl, FinalControl *)

\* LegalCheck with the critical items judged before the unchecked ones.
LegalCheckCriticalFirst(stage, package, t) ==
    LET s0 == [stage EXCEPT !.checked_at = t, !.issues = <<>>]
    IN IF CriticalUnchecked(stage.checklist) # {}
       THEN [s0 EXCEPT !.status = "failed"]
       ELSE IF Unchecked(stage.checklist) # {}
            THEN [s0 EXCEPT !.status = "pending",
                            !.issues = <<Issue("info", "legal_review")>>]
            ELSE [s0 EXCEPT !.status = "passed"]

LegalCheck(stage, package, t) ==
    LET s0 == [stage EXCEPT !.checked_at = t, !.issues = <<>>]
        unchecked == Unchecked(stage.checklist)
    IN IF unchecked # {}
       THEN [s0 EXCEPT !.status = "pending",
                       !.issues = <<Issue("info", "legal_review")>>]
       ELSE IF CriticalUnchecked(stage.checklist) # {}
            THEN [s0 EXCEPT !.status = "failed"]
            ELSE [s0 EXCEPT !.status = "passed"]

FinancialCheck(stage, package, t) ==
    LET s0 == [stage EXCEPT !.checked_at = t, !.issues = <<>>]
    IN IF Unchecked(stage.checklist) # {}
       THEN [s0 EXCEPT !.status = "pending",
                       !.issues = <<Issue("info", "financial_review")>>]
       ELSE [s0 EXCEPT !.status = "passed"]

FinalCheck(stage, package, t) ==
    LET s0 == [stage EXCEPT !.checked_at = t, !.issues = <<>>]
    IN IF Unchecked(stage.checklist) # {}
       THEN [s0 EXCEPT !.status = "pending",
                       !.issues = <<Issue("info", "head_approval")>>]
       ELSE [s0 EXCEPT !.status = "passed"]

\* stage.check(package) of the stage at index i
StageCheck(i, stage, package, t) ==
    CASE i = 0 -> AutomaticCheck(stage, package, t)
      [] i = 1 -> LegalCheck(stage, package, t)
      [] i = 2 -> FinancialCheck(stage, package, t)
      [] OTHER -> FinalCheck(stage, package, t)

---------------------------------------------------------------------------
(* ControlHistory *)

\* add_entry inserting the entry at the head of the list.
add_entry_front(entries, stage_name, action, user, t, status_before, status_after) ==
    <<[stage_name |-> stage_name, action |-> action,
       user_id |-> user.user_id, user_name |-> user.user_name,
       timestamp |-> t, status_before |-> status_before,
       status_after |-> status_after]>> \o entries

add_entry(entries, stage_name, action, user, t, status_before, status_after) ==
    Append(entries,
           [stage_name |-> stage_name, action |-> action,
            user_id |-> user.user_id, user_name |-> user.user_name,
            timestamp |-> t, status_before |-> status_before,
            status_after |-> status_after])

---------------------------------------------------------------------------
(* MultiStageController *)

InitStages == [i \in StageIndex |->
    CASE i = 0 -> ControlStage(StageNames[0], AutomaticChecklist)
      [] i = 1 -> ControlStage(StageNames[1], LegalChecklist)
      [] i = 2 -> ControlStage(StageNames[2], FinancialChecklist)
      [] OTHER -> ControlStage(StageNames[3], FinalChecklist)]

ValidIndex(stage_index) == 0 <= stage_index /\ stage_index < 4

\* The loop without its break.
RECURSIVE ControlLoopNoBreak(_, _, _, _, _)
ControlLoopNoBreak(i, acc, package, user, t) ==
    IF i > 3 THEN acc
    ELSE LET status_before == acc.stages[i].status
             stage == StageCheck(i, acc.stages[i], package, t)
             acc2 == [stages |-> [acc.stages EXCEPT ![i] = stage],
                      results |-> Append(acc.results, get_result(stage)),
                      entries |-> add_entry(acc.entries, stage.name, "check",
                                            user, t, status_before, stage.status)]
         IN ControlLoopNoBreak(i + 1, acc2, package, user, t)

\* The for loop of execute_full_control from stage i on, with its break.
RECURSIVE ControlLoop(_, _, _, _, _)
ControlLoop(i, acc, package, user, t) ==
    IF i > 3 THEN acc
    ELSE LET status_before == acc.stages[i].status
             stage == StageCheck(i, acc.stages[i], package, t)
             acc2 == [stages |-> [acc.stages EXCEPT ![i] = stage],
                      results |-> Append(acc.results, get_result(stage)),
                      entries |-> add_entry(acc.entries, stage.name, "check",
                                            user, t, status_before, stage.status)]
         IN IF stage.status = "failed" THEN acc2
            ELSE ControlLoop(i + 1, acc2, package, user, t)

\* Overall with pending ranked above warning.
OverallPendingFirst(results) ==
    IF \E k \in 1 .. Len(results) : results[k].status = "failed" THEN "failed"
    ELSE IF \E k \in 1 .. Len(results) : results[k].status = "pending"
    THEN "pending"
    ELSE IF \E k \in 1 .. Len(results) : results[k].status = "warning"
    THEN "warning"
    ELSE "passed"

Overall(results) ==
    IF \E k \in 1 .. Len(results) : results[k].status = "failed" THEN "failed"
    ELSE IF \E k \in 1 .. Len(results) : results[k].status = "warning"
    THEN "warning"
    ELSE IF \E k \in 1 .. Len(results) : results[k].status = "pending"
    THEN "pending"
    ELSE "passed"

execute_full_control(stgs, entries, package, user, t) ==
    LET acc == ControlLoop(0, [stages |-> stgs, results |-> <<>>,
                               entries |-> entries], package, user, t)
    IN [stages |-> acc.stages, entries |-> acc.entries,
        result |-> [overall_status |-> Overall(acc.results),
                    stages |-> acc.results,
                    completed_at |-> t,
                    history_entries |-> Len(acc.entries)]]

\* update_checklist_item recording the call whatever the stage answered.
update_checklist_item_always_logs(stgs, entries, stage_index, item_id, checked, user, comment, t) ==
    IF ValidIndex(stage_index)
    THEN LET r == StageUpdateChecklistItem(stgs[stage_index], item_id, checked,
                                           user.user_name, comment, t)
         IN [stages |-> [stgs EXCEPT ![stage_index] = r.stage],
             entries |-> add_entry(entries, r.stage.name, "checklist_update",
                                   user, t, r.stage.status, r.stage.status),
             result |-> r.result]
    ELSE [stages |-> stgs, entries |-> entries, result |-> FALSE]

update_checklist_item(stgs, entries, stage_index, item_id, checked, user, comment, t) ==
    IF ValidIndex(stage_index)
    THEN LET r == StageUpdateChecklistItem(stgs[stage_index], item_id, checked,
                                           user.user_name, comment, t)
         IN [stages |-> [stgs EXCEPT ![stage_index] = r.stage],
             entries |-> IF r.result
                         THEN add_entry(entries, r.stage.name, "checklist_update",
                                        user, t, r.stage.status, r.stage.status)
                         ELSE entries,
             result |-> r.result]
    ELSE [stages |-> stgs, entries |-> entries, result |-> FALSE]

\* approve_stage without the test of the critical items.
approve_stage_unguarded(stgs, entries, stage_index, user, t) ==
    IF ValidIndex(stage_index)
    THEN LET stage == stgs[stage_index]
         IN [stages |-> [stgs EXCEPT ![stage_index].status = "passed"],
             entries |-> add_entry(entries, stage.name, "approve", user, t,
                                   stage.status, "passed"),
             result |-> TRUE]
    ELSE [stages |-> stgs, entries |-> entries, result |-> FALSE]

approve_stage(stgs, entries, stage_index, user, t) ==
    IF ValidIndex(stage_index)
    THEN LET stage == stgs[stage_index]
             status_before == stage.status
         IN IF CriticalUnchecked(stage.checklist) # {}
            THEN [stages |-> stgs, entries |-> entries, result |-> FALSE]
            ELSE [stages |-> [stgs EXCEPT ![stage_index].status = "passed"],
                  entries |-> add_entry(entries, stage.name, "approve", user, t,
                                        status_before, "passed"),
                  result |-> TRUE]
    ELSE [stages |-> stgs, entries |-> entries, result |-> FALSE]

\* reject_stage refusing to reject a stage that has passed.
reject_stage_guarded(stgs, entries, stage_index, user, t) ==
    IF ValidIndex(stage_index) /\ stgs[stage_index].status # "passed"
    THEN LET stage == stgs[stage_index]
         IN [stages |-> [stgs EXCEPT ![stage_index].status = "failed"],
             entries |-> add_entry(entries, stage.name, "reject", user, t,
                                   stage.status, "failed"),
             result |-> TRUE]
    ELSE [stages |-> stgs, entries |-> entries, result |-> FALSE]

\* reject_stage testing the upper bound of the index alone: a negative index
\* then selects a stage from the end of the list, as list indexing does.
reject_stage_from_end(stgs, entries, stage_index, user, t) ==
    IF stage_index < 4 /\ stage_index >= -4
    THEN LET i == IF stage_index < 0 THEN stage_index + 4 ELSE stage_index
             stage == stgs[i]
         IN [stages |-> [stgs EXCEPT ![i].status = "failed"],
             entries |-> add_entry(entries, stage.name, "reject", user, t,
                                   stage.status, "failed"),
             result |-> TRUE]
    ELSE [stages |-> stgs, entries |-> entries, result |-> FALSE]

reject_stage(stgs, entries, stage_index, user, t) ==
    IF ValidIndex(stage_index)
    THEN LET stage == stgs[stage_index]
             status_before == stage.status
         IN [stages |-> [stgs EXCEPT ![stage_index].status = "failed"],
             entries |-> add_entry(entries, stage.name, "reject", user, t,
                                   status_before, "failed"),
             result |-> TRUE]
    ELSE [stages |-> stgs, entries |-> entries, result |-> FALSE]

\* get_stage_checklist: the checklist of the stage, [] for an index out of range
get_stage_checklist(stgs, stage_index) ==
    IF ValidIndex(stage_index) THEN stgs[stage_index].checklist ELSE <<>>

---------------------------------------------------------------------------
(* Inputs *)

\* What AutomaticControl.check reads of a document.
Doc(exists, size, status) == [exists |-> exists, size |-> size, status |-> status]

DocOk == Doc(TRUE, MaxFileSize, "valid")
DocBig == Doc(TRUE, MaxFileSize + 1, "valid")
DocExpired == Doc(TRUE, MaxFileSize, "expired")
DocMissing == Doc(FALSE, 0, "valid")
DocMissingExpired == Doc(FALSE, 0, "expired")

Package(documents, required_documents) ==
    [documents |-> documents, required_documents |-> required_documents]

Packages ==
    {Package(<<d>>, 1) : d \in {DocOk, DocBig, DocExpired, DocMissing, DocMissingExpired}}
    \cup {Package(<<>>, 1), Package(<<DocMissing, DocBig>>, 1)}

Users == {[user_id |-> "u1", user_name |-> "Ivanov"]}

\* (stage_index, item_id) of the update_checklist_item calls of Spec
UpdateInputs ==
    {<<0, "auto_07">>, <<1, "legal_01">>, <<2, "fin_02">>, <<3, "final_04">>,
     <<1, "fin_01">>}

\* The packages the clients of the API have under review.
PackageIds == {"A", "B"}

PackageOf(package_id) ==
    IF package_id = "A" THEN Package(<<DocOk>>, 1) ELSE Package(<<DocExpired>>, 1)

\* DocumentDeduplicator.__init__
InitStats ==
    [total_input |-> 0, duplicates_removed |-> 0, total_output |-> 0,
     truncated_by_limit |-> FALSE]

\* A controller of its own for each package, no request made yet.
InitReviews ==
    [p \in PackageIds |-> [stages |-> InitStages, entries |-> <<>>, response |-> FALSE]]

---------------------------------------------------------------------------
(* The operations as actions *)

Init ==
    /\ stages = InitStages
    /\ history = <<>>
    /\ now = 1
    /\ lastCall = [op |-> "init"]
    /\ ret = FALSE
    /\ stats = InitStats
    /\ reviews = InitReviews

ExecuteFullControl(package, user) ==
    LET r == execute_full_control(stages, history, package, user, now) IN
    /\ stages' = r.stages
    /\ history' = r.entries
    /\ ret' = r.result
    /\ now' = now + 1
    /\ lastCall' = [op |-> "execute_full_control", package |-> package, user |-> user]
    /\ UNCHANGED <<stats, reviews>>

UpdateChecklistItem(stage_index, item_id, checked, user, comment) ==
    LET r == update_checklist_item(stages, history, stage_index, item_id,
                                   checked, user, comment, now) IN
    /\ stages' = r.stages
    /\ history' = r.entries
    /\ ret' = r.result
    /\ now' = IF r.result THEN now + 1 ELSE now
    /\ lastCall' = [op |-> "update_checklist_item", stage_index |-> stage_index,
                    item_id |-> item_id, checked |-> checked, user |-> user,
                    comment |-> comment]
    /\ UNCHANGED <<stats, reviews>>

ApproveStage(stage_index, user) ==
    LET r == approve_stage(stages, history, stage_index, user, now) IN
    /\ stages' = r.stages
    /\ history' = r.entries
    /\ ret' = r.result
    /\ now' = IF r.result THEN now + 1 ELSE now
    /\ lastCall' = [op |-> "approve_stage", stage_index |-> stage_index, user |-> user]
    /\ UNCHANGED <<stats, reviews>>

RejectStage(stage_index, user) ==
    LET r == reject_stage(stages, history, stage_index, user, now) IN
    /\ stages' = r.stages
    /\ history' = r.entries
    /\ ret' = r.result
    /\ now' = IF r.result THEN now + 1 ELSE now
    /\ lastCall' = [op |-> "reject_stage", stage_index |-> stage_index, user |-> user]
    /\ UNCHANGED <<stats, reviews>>

\* A session of Spec: every operation, on inputs that reach every stage.
Execute ==
    /\ now <= MaxTime
    /\ \E p \in Packages : ExecuteFullControl(p, SystemUser)

Update ==
    /\ now <= MaxTime
    /\ \E in \in UpdateInputs, c \in BOOLEAN, u \in Users :
           UpdateChecklistItem(in[1], in[2], c, u, "note")

Approve ==
    /\ now <= MaxTime
    /\ \E i \in StageIndex, u \in Users : ApproveStage(i, u)

Reject ==
    /\ now <= MaxTime
    /\ \E i \in StageIndex, u \in Users : RejectStage(i, u)

Next == Execute \/ Update \/ Approve \/ Reject

Spec == Init /\ [][Next]_vars

\* A session of SpecFinalReview: a reviewer works through the checklist of the
\* Final stage, runs the control, approves or rejects the stage.
FinalReviewInputs ==
    {<<3, "final_01">>, <<3, "final_02">>, <<3, "final_03">>, <<3, "final_04">>}

ReviewExecute ==
    /\ now <= MaxReviewTime
    /\ ExecuteFullControl(Package(<<DocOk>>, 1), SystemUser)

ReviewCheck ==
    /\ now <= MaxReviewTime
    /\ \E in \in FinalReviewInputs, u \in Users :
           UpdateChecklistItem(in[1], in[2], TRUE, u, "note")

ReviewUncheck ==
    /\ now <= MaxReviewTime
    /\ \E u \in Users : UpdateChecklistItem(3, "final_04", FALSE, u, "")

ReviewApprove ==
    /\ now <= MaxReviewTime
    /\ \E u \in Users : ApproveStage(3, u)

ReviewReject ==
    /\ now <= MaxReviewTime
    /\ \E u \in Users : RejectStage(3, u)

NextFinalReview ==
    ReviewExecute \/ ReviewCheck \/ ReviewUncheck \/ ReviewApprove \/ ReviewReject

SpecFinalReview == Init /\ [][NextFinalReview]_vars

\* A session of SpecStageIndex: the operations that take a stage index, called
\* with indexes in and out of the range of the stages.
StageIndexInputs == {-4, -1, 0, 3, 4}

\* (stage_index, item_id) of the update_checklist_item calls of SpecStageIndex
IndexUpdateInputs ==
    {<<-4, "auto_07">>, <<-1, "final_04">>, <<0, "auto_07">>, <<3, "final_04">>,
     <<4, "final_04">>}

GetStageChecklist(stage_index) ==
    /\ ret' = get_stage_checklist(stages, stage_index)
    /\ lastCall' = [op |-> "get_stage_checklist", stage_index |-> stage_index]
    /\ UNCHANGED <<stages, history, now, stats, reviews>>

IndexExecute ==
    /\ now <= MaxIndexTime
    /\ ExecuteFullControl(Package(<<DocOk>>, 1), SystemUser)

IndexUpdate ==
    /\ now <= MaxIndexTime
    /\ \E in \in IndexUpdateInputs, u \in Users :
           UpdateChecklistItem(in[1], in[2], TRUE, u, "note")

IndexApprove ==
    /\ now <= MaxIndexTime
    /\ \E i \in StageIndexInputs, u \in Users : ApproveStage(i, u)

IndexReject ==
    /\ now <= MaxIndexTime
    /\ \E i \in StageIndexInputs, u \in Users : RejectStage(i, u)

IndexGet ==
    /\ now <= MaxIndexTime
    /\ \E i \in StageIndexInputs : GetStageChecklist(i)

NextStageIndex ==
    IndexExecute \/ IndexUpdate \/ IndexApprove \/ IndexReject \/ IndexGet

SpecStageIndex == Init /\ [][NextStageIndex]_vars

\* The control endpoints of src/src/api.py.  Every handler runs to its end
\* without awaiting, on the one controller the module constructs when it is
\* loaded.  package_id names the package the client is reviewing; no request
\* carries it to the controller.  reviews follows each request on the
\* controller of the package it was made for.  (\E x \in {e} names the value
\* of e.)
Review(package_id, own_stages, own_entries, response) ==
    [reviews EXCEPT ![package_id] =
        [stages |-> own_stages, entries |-> own_entries, response |-> response]]

ExecuteControl(package_id) ==
    \E package \in {PackageOf(package_id)}, own \in {reviews[package_id]} :
    \E r \in {execute_full_control(stages, history, package, SystemUser, now)},
       q \in {execute_full_control(own.stages, own.entries, package, SystemUser, now)} :
       /\ stages' = r.stages
       /\ history' = r.entries
       /\ ret' = r.result
       /\ now' = now + 1
       /\ lastCall' = [op |-> "execute_control", package_id |-> package_id]
       /\ reviews' = Review(package_id, q.stages, q.entries, q.result)
       /\ UNCHANGED stats

UpdateChecklist(package_id, stage_index, item_id, checked, user) ==
    \E own \in {reviews[package_id]} :
    \E r \in {update_checklist_item(stages, history, stage_index, item_id,
                                    checked, user, "", now)},
       q \in {update_checklist_item(own.stages, own.entries, stage_index, item_id,
                                    checked, user, "", now)} :
       /\ stages' = r.stages
       /\ history' = r.entries
       /\ ret' = r.result
       /\ now' = IF r.result THEN now + 1 ELSE now
       /\ lastCall' = [op |-> "update_checklist", package_id |-> package_id,
                       stage_index |-> stage_index, item_id |-> item_id,
                       checked |-> checked, user |-> user]
       /\ reviews' = Review(package_id, q.stages, q.entries, q.result)
       /\ UNCHANGED stats

get_all_checklists(stgs) == [i \in StageIndex |-> stgs[i].checklist]

GetAllChecklists(package_id) ==
    LET own == reviews[package_id] IN
    /\ ret' = get_all_checklists(stages)
    /\ lastCall' = [op |-> "get_all_checklists", package_id |-> package_id]
    /\ reviews' = Review(package_id, own.stages, own.entries,
                         get_all_checklists(own.stages))
    /\ UNCHANGED <<stages, history, now, stats>>

GetControlHistory(package_id) ==
    LET own == reviews[package_id] IN
    /\ ret' = history
    /\ lastCall' = [op |-> "get_control_history", package_id |-> package_id]
    /\ reviews' = Review(package_id, own.stages, own.entries, own.entries)
    /\ UNCHANGED <<stages, history, now, stats>>

\* A session of SpecApi: the clients review the two packages, their requests
\* interleaved in every order.
ApiExecute ==
    /\ now <= MaxApiTime
    /\ \E p \in PackageIds : ExecuteControl(p)

ApiUpdate ==
    /\ now <= MaxApiTime
    /\ \E p \in PackageIds, c \in BOOLEAN, u \in Users :
           UpdateChecklist(p, 1, "legal_01", c, u)

ApiChecklists ==
    /\ now <= MaxApiTime
    /\ \E p \in PackageIds : GetAllChecklists(p)

ApiHistory ==
    /\ now <= MaxApiTime
    /\ \E p \in PackageIds : GetControlHistory(p)

NextApi == ApiExecute \/ ApiUpdate \/ ApiChecklists \/ ApiHistory

SpecApi == Init /\ [][NextApi]_vars

---------------------------------------------------------------------------
(* Texts *)

\* A str is a string of ASCII characters; the Russian words the code names are
\* written in Latin letters.  Char(s, k) is s[k - 1].
Char(s, k) == SubSeq(s, k, k)

Chars(s) == {Char(s, k) : k \in 1 .. Len(s)}

UpperCase == "ABCDEFGHIJKLMNOPQRSTUVWXYZ"
LowerCase == "abcdefghijklmnopqrstuvwxyz"
Digits == "0123456789"

\* \s of re, and what str.strip() and str.split() take for whitespace
IsSpace(c) == c \in {" ", "\t", "\n"}

UpperChars == Chars(UpperCase)

WordChars == Chars(UpperCase) \cup Chars(LowerCase) \cup Chars(Digits) \cup {"_"}

\* \w of re
IsWord(c) == c \in WordChars

LowerChar(c) ==
    IF c \in UpperChars
    THEN Char(LowerCase, CHOOSE k \in 1 .. Len(UpperCase) : Char(UpperCase, k) = c)
    ELSE c

RECURSIVE lower(_)
lower(s) == IF s = "" THEN "" ELSE LowerChar(Head(s)) \o lower(Tail(s))

RECURSIVE lstrip(_)
lstrip(s) == IF s # "" /\ IsSpace(Head(s)) THEN lstrip(Tail(s)) ELSE s

RECURSIVE rstrip(_)
rstrip(s) ==
    IF s # "" /\ IsSpace(Char(s, Len(s))) THEN rstrip(SubSeq(s, 1, Len(s) - 1)) ELSE s

strip(s) == rstrip(lstrip(s))

\* re.sub(r'\s+', ' ', s)
RECURSIVE CollapseWhitespace(_)
CollapseWhitespace(s) ==
    IF s = "" THEN ""
    ELSE IF IsSpace(Head(s)) THEN " " \o CollapseWhitespace(lstrip(s))
    ELSE Head(s) \o CollapseWhitespace(Tail(s))

\* re.sub(r'[^\w\s\-/]', '', s)
RECURSIVE RemovePunctuation(_)
RemovePunctuation(s) ==
    IF s = "" THEN ""
    ELSE IF IsWord(Head(s)) \/ IsSpace(Head(s)) \/ Head(s) \in {"-", "/"}
    THEN Head(s) \o RemovePunctuation(Tail(s))
    ELSE RemovePunctuation(Tail(s))

\* re.sub(r'[^\w\s...]', '', s), the range of the pattern being letters
RECURSIVE RemoveSpecial(_)
RemoveSpecial(s) ==
    IF s = "" THEN ""
    ELSE IF IsWord(Head(s)) \/ IsSpace(Head(s))
    THEN Head(s) \o RemoveSpecial(Tail(s))
    ELSE RemoveSpecial(Tail(s))

\* The first word of a text that starts with none of the whitespace.
RECURSIVE FirstWord(_)
FirstWord(s) ==
    IF s = "" \/ IsSpace(Head(s)) THEN "" ELSE Head(s) \o FirstWord(Tail(s))

\* str.split(): the words of s, as a sequence
RECURSIVE split(_)
split(s) ==
    LET t == lstrip(s) IN
    IF t = "" THEN <<>>
    ELSE LET w == FirstWord(t)
         IN <<w>> \o split(SubSeq(t, Len(w) + 1, Len(t)))

\* ' '.join(words)
RECURSIVE join(_)
join(words) ==
    IF words = <<>> THEN ""
    ELSE IF Len(words) = 1 THEN words[1]
    ELSE words[1] \o " " \o join(Tail(words))

StartsWith(s, prefix) ==
    Len(s) >= Len(prefix) /\ SubSeq(s, 1, Len(prefix)) = prefix

\* The length of the match of first\s+second\s+ at the start of s, 0 if none.
MatchPhrase(s, first, second) ==
    IF ~StartsWith(s, first) THEN 0
    ELSE LET s1 == SubSeq(s, Len(first) + 1, Len(s))
             s2 == lstrip(s1)
         IN IF s2 = s1 \/ ~StartsWith(s2, second) THEN 0
            ELSE LET s3 == SubSeq(s2, Len(second) + 1, Len(s2))
                     s4 == lstrip(s3)
                 IN IF s4 = s3 THEN 0 ELSE Len(s) - Len(s4)

\* re.sub(r'\bfirst\s+second\s+', replacement, s), prev the character before s
RECURSIVE SubPhrase(_, _, _, _, _)
SubPhrase(s, prev, first, second, replacement) ==
    IF s = "" THEN ""
    ELSE LET m == IF prev = "" \/ ~IsWord(prev)
                  THEN MatchPhrase(s, first, second) ELSE 0
         IN IF m > 0
            THEN replacement \o SubPhrase(SubSeq(s, m + 1, Len(s)), Char(s, m),
                                          first, second, replacement)
            ELSE Head(s) \o SubPhrase(Tail(s), Head(s), first, second, replacement)

---------------------------------------------------------------------------
(* Requirement records and their deduplication *)

\* An entry of required_documents: a dict with the keys id and name, a dict
\* without the key name, or a value that is no dict.
Record(id, name) == [is_dict |-> TRUE, has_name |-> TRUE, id |-> id, name |-> name]
Unnamed(id) == [is_dict |-> TRUE, has_name |-> FALSE, id |-> id, name |-> ""]
NotADict == [is_dict |-> FALSE, has_name |-> FALSE, id |-> "", name |-> ""]

\* doc.get("name", "")
GetName(doc) == IF doc.has_name THEN doc.name ELSE ""

\* A float that is the quotient of two integers, and the comparisons of floats
\* the code makes (exact for quotients of the sizes of the model).
Ratio(num, den) == [num |-> num, den |-> den]
Geq(x, y) == x.num * y.den >= y.num * x.den
Gt(x, y) == x.num * y.den > y.num * x.den

\* similarity_threshold = 0.85, SIMILARITY_THRESHOLD = 0.85
ThresholdPercent == 85
similarity_threshold == Ratio(ThresholdPercent, 100)

\* DocumentDeduplicator.MAX_DOCUMENTS
MAX_DOCUMENTS == 50

\* DocumentDeduplicator.normalize_name of backend/utils/deduplication.py
normalize_name(name) ==
    IF name = "" THEN ""
    ELSE SubPhrase(SubPhrase(SubPhrase(SubPhrase(
             RemovePunctuation(CollapseWhitespace(strip(lower(name)))),
             "", "spravka", "o", "spravka_"),
             "", "vypiska", "iz", "vypiska_"),
             "", "svedeniya", "o", "svedeniya_"),
             "", "dogovor", "nr", "dogovor_")

Range(seq) == {seq[k] : k \in 1 .. Len(seq)}

\* DocumentDeduplicator.calculate_similarity: the Jaccard coefficient of the words
calculate_similarity(str1, str2) ==
    IF str1 = "" \/ str2 = "" THEN Ratio(0, 1)
    ELSE LET set1 == Range(split(str1))
             set2 == Range(split(str2))
             intersection == Cardinality(set1 \cap set2)
             union == Cardinality(set1 \cup set2)
         IN IF union > 0 THEN Ratio(intersection, union) ELSE Ratio(0, 1)

\* DocumentDeduplicator.is_duplicate
is_duplicate(doc1, doc2) ==
    LET name1 == normalize_name(GetName(doc1))
        name2 == normalize_name(GetName(doc2))
    IN \/ name1 = name2
       \/ Geq(calculate_similarity(name1, name2), similarity_threshold)

\* f"doc_{idx}"
DocId(idx) == "doc_" \o ToString(idx)

\* One iteration of the loop of deduplicate with the limit tested by > for >=:
\* the loop stops one record late.
DeduplicateStepOneLate(acc, doc) ==
    IF acc.stopped THEN acc
    ELSE IF Len(acc.unique_docs) > MAX_DOCUMENTS
    THEN [acc EXCEPT !.stats.truncated_by_limit = TRUE, !.stopped = TRUE]
    ELSE IF ~doc.is_dict THEN [acc EXCEPT !.raised = TRUE, !.stopped = TRUE]
    ELSE LET name_normalized == normalize_name(GetName(doc))
             removed == [acc EXCEPT !.stats.duplicates_removed = @ + 1]
         IN IF name_normalized = "" THEN acc
            ELSE IF name_normalized \in acc.seen_names THEN removed
            ELSE IF \E j \in 1 .. Len(acc.unique_docs) :
                        is_duplicate(doc, acc.unique_docs[j])
            THEN removed
            ELSE [acc EXCEPT !.unique_docs = Append(@, doc),
                             !.seen_names = @ \cup {name_normalized}]

\* One iteration of the loop of DocumentDeduplicator.deduplicate, on the entry
\* doc; stopped says that the loop has ended, by break or by the AttributeError
\* that doc.get raises on an entry that is no dict.
DeduplicateStep(acc, doc) ==
    IF acc.stopped THEN acc
    ELSE IF Len(acc.unique_docs) >= MAX_DOCUMENTS
    THEN [acc EXCEPT !.stats.truncated_by_limit = TRUE, !.stopped = TRUE]
    ELSE IF ~doc.is_dict THEN [acc EXCEPT !.raised = TRUE, !.stopped = TRUE]
    ELSE LET name_normalized == normalize_name(GetName(doc))
             removed == [acc EXCEPT !.stats.duplicates_removed = @ + 1]
         IN IF name_normalized = "" THEN acc
            ELSE IF name_normalized \in acc.seen_names THEN removed
            ELSE IF \E j \in 1 .. Len(acc.unique_docs) :
                        is_duplicate(doc, acc.unique_docs[j])
            THEN removed
            ELSE [acc EXCEPT !.unique_docs = Append(@, doc),
                             !.seen_names = @ \cup {name_normalized}]

\* The iterations of the loop on documents[lo], ..., documents[hi], in this
\* order.  The range is halved, and the value after the first half named
\* before the second half is evaluated, to keep the evaluation shallow.
RECURSIVE DeduplicateLoop(_, _, _, _)
DeduplicateLoop(documents, lo, hi, acc) ==
    IF lo > hi THEN acc
    ELSE IF lo = hi THEN DeduplicateStep(acc, documents[lo])
    ELSE LET mid == (lo + hi) \div 2
         IN CHOOSE after \in
                {DeduplicateLoop(documents, mid + 1, hi, half) :
                    half \in {DeduplicateLoop(documents, lo, mid, acc)}} : TRUE

\* deduplicate writing the normalized name into the records it returns.
deduplicate_renaming(self_stats, documents) ==
    LET stats0 == [self_stats EXCEPT !.total_input = Len(documents)] IN
    IF documents = <<>>
    THEN [stats |-> stats0,
          result |-> [raised |-> FALSE, required_documents |-> <<>>]]
    ELSE LET acc == DeduplicateLoop(documents, 1, Len(documents),
                        [unique_docs |-> <<>>, seen_names |-> {}, stats |-> stats0,
                         raised |-> FALSE, stopped |-> FALSE])
             unique_docs == [idx \in 1 .. Len(acc.unique_docs) |->
                                [acc.unique_docs[idx] EXCEPT
                                    !.id = DocId(idx), !.name = normalize_name(@)]]
             stats1 == [acc.stats EXCEPT !.total_output = Len(unique_docs)]
         IN IF acc.raised
            THEN [stats |-> acc.stats, result |-> [raised |-> TRUE]]
            ELSE [stats |-> stats1,
                  result |-> [raised |-> FALSE, required_documents |-> unique_docs,
                              deduplication_stats |-> stats1]]

\* DocumentDeduplicator.deduplicate of backend/utils/deduplication.py on an
\* analysis with these required_documents: the stats of the instance after the
\* call and what the call returns (the analysis as it came when the list is
\* empty; nothing when it raises).
deduplicate(self_stats, documents) ==
    LET stats0 == [self_stats EXCEPT !.total_input = Len(documents)] IN
    IF documents = <<>>
    THEN [stats |-> stats0,
          result |-> [raised |-> FALSE, required_documents |-> <<>>]]
    ELSE LET acc == DeduplicateLoop(documents, 1, Len(documents),
                        [unique_docs |-> <<>>, seen_names |-> {}, stats |-> stats0,
                         raised |-> FALSE, stopped |-> FALSE])
             unique_docs == [idx \in 1 .. Len(acc.unique_docs) |->
                                [acc.unique_docs[idx] EXCEPT !.id = DocId(idx)]]
             stats1 == [acc.stats EXCEPT !.total_output = Len(unique_docs)]
         IN IF acc.raised
            THEN [stats |-> acc.stats, result |-> [raised |-> TRUE]]
            ELSE [stats |-> stats1,
                  result |-> [raised |-> FALSE, required_documents |-> unique_docs,
                              deduplication_stats |-> stats1]]

\* difflib.SequenceMatcher with no junk (names shorter than the 200 characters
\* from which autojunk acts).  Positions count from 1; a range lo .. hi with
\* lo > hi is empty.
RECURSIVE CommonPrefix(_, _, _, _, _, _)
CommonPrefix(a, i, ahi, b, j, bhi) ==
    IF i > ahi \/ j > bhi THEN 0
    ELSE IF Char(a, i) # Char(b, j) THEN 0
    ELSE 1 + CommonPrefix(a, i + 1, ahi, b, j + 1, bhi)

\* SequenceMatcher.find_longest_match: of the longest blocks common to
\* a[alo .. ahi] and b[blo .. bhi], the one that starts earliest in a and, of
\* those, earliest in b.
find_longest_match(a, alo, ahi, b, blo, bhi) ==
    LET Block(i, j) == CommonPrefix(a, i, ahi, b, j, bhi)
        sizes == {Block(i, j) : i \in alo .. ahi, j \in blo .. bhi}
        size == CHOOSE s \in sizes : \A t \in sizes : s >= t
        besti == CHOOSE i \in alo .. ahi :
                    /\ \E j \in blo .. bhi : Block(i, j) = size
                    /\ \A i2 \in alo .. (i - 1) : \A j \in blo .. bhi : Block(i2, j) < size
        bestj == CHOOSE j \in blo .. bhi :
                    /\ Block(besti, j) = size
                    /\ \A j2 \in blo .. (j - 1) : Block(besti, j2) < size
    IN [i |-> besti, j |-> bestj, size |-> size]

\* The sum of the sizes of SequenceMatcher.get_matching_blocks
RECURSIVE MatchingSize(_, _, _, _, _, _)
MatchingSize(a, alo, ahi, b, blo, bhi) ==
    IF alo > ahi \/ blo > bhi THEN 0
    ELSE LET m == find_longest_match(a, alo, ahi, b, blo, bhi)
         IN IF m.size = 0 THEN 0
            ELSE m.size
                 + MatchingSize(a, alo, m.i - 1, b, blo, m.j - 1)
                 + MatchingSize(a, m.i + m.size, ahi, b, m.j + m.size, bhi)

\* SequenceMatcher(None, a, b).ratio()
ratio(a, b) ==
    IF Len(a) + Len(b) = 0 THEN Ratio(1, 1)
    ELSE Ratio(2 * MatchingSize(a, 1, Len(a), b, 1, Len(b)), Len(a) + Len(b))

\* DocumentDeduplicator._calculate_similarity of utils/deduplicator.py
_calculate_similarity(str1, str2) == ratio(str1, str2)

stop_words == {"kopiya", "original", "zaverennaya", "notarialnaya"}

IsNoStopWord(w) == w \notin stop_words

\* DocumentDeduplicator._normalize_document_name of utils/deduplicator.py
_normalize_document_name(name) ==
    join(SelectSeq(split(RemoveSpecial(CollapseWhitespace(strip(lower(name))))),
                   IsNoStopWord))

\* The loop of DocumentDeduplicator.deduplicate of utils/deduplicator.py
RECURSIVE UtilsDeduplicateLoop(_, _, _)
UtilsDeduplicateLoop(documents, k, acc) ==
    IF k > Len(documents) THEN acc
    ELSE IF ~documents[k].is_dict THEN [acc EXCEPT !.raised = TRUE]
    ELSE LET doc == documents[k]
             normalized_name == _normalize_document_name(GetName(doc))
         IN IF normalized_name \in acc.seen_names
            THEN UtilsDeduplicateLoop(documents, k + 1, acc)
            ELSE IF \E j \in 1 .. Len(acc.unique_docs) :
                        Geq(_calculate_similarity(normalized_name,
                                _normalize_document_name(GetName(acc.unique_docs[j]))),
                            similarity_threshold)
            THEN UtilsDeduplicateLoop(documents, k + 1, acc)
            ELSE UtilsDeduplicateLoop(documents, k + 1,
                     [acc EXCEPT !.unique_docs = Append(@, doc),
                                 !.seen_names = @ \cup {normalized_name}])

\* DocumentDeduplicator.deduplicate of utils/deduplicator.py: the list it
\* returns, or that it raised
utils_deduplicate(documents) ==
    LET acc == UtilsDeduplicateLoop(documents, 1,
                   [unique_docs |-> <<>>, seen_names |-> {}, raised |-> FALSE])
    IN IF acc.raised THEN [raised |-> TRUE]
       ELSE [raised |-> FALSE, required_documents |-> acc.unique_docs]

\* The loop of _deduplicate_documents putting a record whose name is in seen
\* in the place of the record accepted under that name.
RECURSIVE AnalyzerDeduplicateLoopLastWins(_, _, _)
AnalyzerDeduplicateLoopLastWins(documents, k, acc) ==
    IF k > Len(documents) THEN acc
    ELSE IF ~documents[k].is_dict \/ ~documents[k].has_name
    THEN AnalyzerDeduplicateLoopLastWins(documents, k + 1, acc)
    ELSE LET doc == documents[k]
             name_normalized == CollapseWhitespace(strip(lower(doc.name)))
         IN IF name_normalized = ""
            THEN AnalyzerDeduplicateLoopLastWins(documents, k + 1, acc)
            ELSE IF name_normalized \in Range(acc.seen)
            THEN AnalyzerDeduplicateLoopLastWins(documents, k + 1,
                     [acc EXCEPT !.unique =
                         [j \in 1 .. Len(acc.unique) |->
                             IF acc.seen[j] = name_normalized THEN doc
                             ELSE acc.unique[j]]])
            ELSE IF \E j \in 1 .. Len(acc.seen) :
                        Gt(ratio(name_normalized, acc.seen[j]), similarity_threshold)
            THEN AnalyzerDeduplicateLoopLastWins(documents, k + 1, acc)
            ELSE AnalyzerDeduplicateLoopLastWins(documents, k + 1,
                     [unique |-> Append(acc.unique, doc),
                      seen |-> Append(acc.seen, name_normalized)])

\* The loop of DocumentAnalyzer._deduplicate_documents; seen holds the
\* normalized names in the order of their insertion.
RECURSIVE AnalyzerDeduplicateLoop(_, _, _)
AnalyzerDeduplicateLoop(documents, k, acc) ==
    IF k > Len(documents) THEN acc
    ELSE IF ~documents[k].is_dict \/ ~documents[k].has_name
    THEN AnalyzerDeduplicateLoop(documents, k + 1, acc)
    ELSE LET doc == documents[k]
             name_normalized == CollapseWhitespace(strip(lower(doc.name)))
         IN IF name_normalized = ""
            THEN AnalyzerDeduplicateLoop(documents, k + 1, acc)
            ELSE IF name_normalized \in Range(acc.seen)
            THEN AnalyzerDeduplicateLoop(documents, k + 1, acc)
            ELSE IF \E j \in 1 .. Len(acc.seen) :
                        Gt(ratio(name_normalized, acc.seen[j]), similarity_threshold)
            THEN AnalyzerDeduplicateLoop(documents, k + 1, acc)
            ELSE AnalyzerDeduplicateLoop(documents, k + 1,
                     [unique |-> Append(acc.unique, doc),
                      seen |-> Append(acc.seen, name_normalized)])

\* DocumentAnalyzer._deduplicate_documents of backend/analyzer.py
_deduplicate_documents(documents) ==
    [raised |-> FALSE,
     required_documents |->
         AnalyzerDeduplicateLoop(documents, 1, [unique |-> <<>>, seen |-> <<>>]).unique]

\* The deduplicators as actions.  A call of DocumentDeduplicator.deduplicate of
\* backend/utils/deduplication.py updates the stats of the instance; the other
\* two keep no state.
Deduplicate(documents) ==
    \E r \in {deduplicate(stats, documents)} :
       /\ stats' = r.stats
       /\ ret' = r.result
       /\ lastCall' = [op |-> "deduplicate", documents |-> documents]
       /\ UNCHANGED <<stages, history, now, reviews>>

UtilsDeduplicate(documents) ==
    /\ ret' = utils_deduplicate(documents)
    /\ lastCall' = [op |-> "utils_deduplicate", documents |-> documents]
    /\ UNCHANGED <<stages, history, now, stats, reviews>>

AnalyzerDeduplicate(documents) ==
    /\ ret' = _deduplicate_documents(documents)
    /\ lastCall' = [op |-> "_deduplicate_documents", documents |-> documents]
    /\ UNCHANGED <<stages, history, now, stats, reviews>>

\* The entries of the short lists of SpecDedup.
DedupEntries ==
    {Record("doc_1", "Ustav"), Record("doc_2", " USTAV  "),
     Record("doc_3", "Licenziya"), Unnamed("doc_4"), NotADict}

RECURSIVE ListsUpTo(_, _)
ListsUpTo(entries, n) ==
    IF n = 0 THEN {<<>>}
    ELSE LET shorter == ListsUpTo(entries, n - 1)
         IN shorter \cup {Append(l, e) : l \in shorter, e \in entries}

\* Two names whose SequenceMatcher ratio is 34/40, the threshold.
NameAtThreshold1 == "vypiska iz egrul abc"
NameAtThreshold2 == "vypiska iz egrul dfh"

\* Lists with near duplicates, names at the threshold, names that normalize to
\* nothing, and invalid entries between valid ones.
DedupLists ==
    {<<Record("doc_1", "Ustav"), Record("doc_2", "ustav"), Record("doc_3", "Licenziya")>>,
     <<Record("doc_1", NameAtThreshold1), Record("doc_2", NameAtThreshold2)>>,
     <<Record("doc_1", "a b c d e f g"), Record("doc_2", "a b c d e f"),
       Record("doc_3", "a b c d e")>>,
     <<Record("doc_1", "a b c d e f"), Record("doc_2", "a b c d e f g"),
       Record("doc_3", "a b c d e")>>,
     <<Record("doc_1", "Ustav"), NotADict, Record("doc_3", "Licenziya")>>,
     <<Record("doc_1", "Ustav"), Unnamed("doc_2"), Record("doc_3", "Licenziya")>>,
     <<Record("doc_1", " \t "), Record("doc_2", "Ustav"), Record("doc_3", "")>>,
     <<Record("doc_1", ". ."), Record("doc_2", "Ustav"), Record("doc_3", "...")>>,
     <<Record("doc_1", "Kopiya"), Record("doc_2", "Ustav (kopiya)"),
       Record("doc_3", "ustav")>>,
     <<Record("doc_1", "Spravka o dohodah"), Record("doc_2", "spravka  O  dohodah."),
       Record("doc_3", "spravka_dohodah")>>,
     <<Record("x", "Ustav"), Record("x", "Licenziya"), Record("doc_1", "Dogovor")>>}

DedupInputs == ListsUpTo(DedupEntries, MaxRecords) \cup DedupLists

\* A session of SpecDedup: one of the three deduplicators is given lists of
\* DedupInputs, and lists it has returned.
DeduplicatorSession(op) == lastCall.op \in {"init", op}

DedupFirst ==
    /\ DeduplicatorSession("deduplicate")
    /\ stats.duplicates_removed < MaxRecords
    /\ \E documents \in DedupInputs : Deduplicate(documents)

DedupAgain ==
    /\ lastCall.op = "deduplicate"
    /\ ~ret.raised
    /\ Deduplicate(ret.required_documents)

UtilsDedupFirst ==
    /\ DeduplicatorSession("utils_deduplicate")
    /\ \E documents \in DedupInputs : UtilsDeduplicate(documents)

UtilsDedupAgain ==
    /\ lastCall.op = "utils_deduplicate"
    /\ ~ret.raised
    /\ UtilsDeduplicate(ret.required_documents)

AnalyzerDedupFirst ==
    /\ DeduplicatorSession("_deduplicate_documents")
    /\ \E documents \in DedupInputs : AnalyzerDeduplicate(documents)

AnalyzerDedupAgain ==
    /\ lastCall.op = "_deduplicate_documents"
    /\ AnalyzerDeduplicate(ret.required_documents)

NextDedup ==
    \/ DedupFirst \/ DedupAgain
    \/ UtilsDedupFirst \/ UtilsDedupAgain
    \/ AnalyzerDedupFirst \/ AnalyzerDedupAgain

SpecDedup == Init /\ [][NextDedup]_vars

\* The lists of SpecDedupLimit: n records with m names in turn.
LimitName(i) == "n" \o ToString(i)

LimitList(n, m) == [k \in 1 .. n |-> Record("id", LimitName((k - 1) % m))]

LimitInputs ==
    {LimitList(n, m) : n \in 1 .. MaxInputLength, m \in {1, 2}}
    \cup {LimitList(n, n) : n \in (MAX_DOCUMENTS - 1) .. MaxInputLength}
    \cup {LimitList(n, MAX_DOCUMENTS) : n \in (MAX_DOCUMENTS + 1) .. MaxInputLength}

\* A session of SpecDedupLimit: a new deduplicator is given one list.
DedupLimit ==
    /\ lastCall.op = "init"
    /\ \E documents \in LimitInputs : Deduplicate(documents)

DedupLimitAgain ==
    /\ lastCall.op = "deduplicate"
    /\ Deduplicate(ret.required_documents)

NextDedupLimit == DedupLimit \/ DedupLimitAgain

SpecDedupLimit == Init /\ [][NextDedupLimit]_vars

\* The similarity scorers as actions: calculate_similarity of
\* backend/utils/deduplication.py and _calculate_similarity of
\* utils/deduplicator.py, each given two strings.
CalculateSimilarity(str1, str2) ==
    /\ ret' = calculate_similarity(str1, str2)
    /\ lastCall' = [op |-> "calculate_similarity", str1 |-> str1, str2 |-> str2]
    /\ UNCHANGED <<stages, history, now, stats, reviews>>

UtilsCalculateSimilarity(str1, str2) ==
    /\ ret' = _calculate_similarity(str1, str2)
    /\ lastCall' = [op |-> "_calculate_similarity", str1 |-> str1, str2 |-> str2]
    /\ UNCHANGED <<stages, history, now, stats, reviews>>

\* The strings given to the scorers: empty, of whitespace only, equal, with the
\* same words in another order, with the same letters in another order.
SimilarityInputs ==
    {"", " ", "a", "ustav", "tide", "diet", "a b", "b a", "a b c", "ustav ooo"}

SimilarityJaccard == \E str1, str2 \in SimilarityInputs : CalculateSimilarity(str1, str2)

SimilaritySequence ==
    \E str1, str2 \in SimilarityInputs : UtilsCalculateSimilarity(str1, str2)

NextSimilarity == SimilarityJaccard \/ SimilaritySequence

SpecSimilarity == Init /\ [][NextSimilarity]_vars

---------------------------------------------------------------------------
(* Verification of the provided documents (src/src/analyzer.py) *)

\* A requirement given to verify_documents: a dict with an id, with or
\* without the keys name and mandatory.
Requirement(id, name, mandatory) ==
    [id |-> id, has_name |-> TRUE, name |-> name,
     has_mandatory |-> TRUE, mandatory |-> mandatory]
RequirementByDefault(id, name) ==
    [id |-> id, has_name |-> TRUE, name |-> name,
     has_mandatory |-> FALSE, mandatory |-> FALSE]
RequirementWithoutName(id) ==
    [id |-> id, has_name |-> FALSE, name |-> "",
     has_mandatory |-> FALSE, mandatory |-> FALSE]

\* req_doc.get("mandatory", True)
GetMandatory(req_doc) == IF req_doc.has_mandatory THEN req_doc.mandatory ELSE TRUE

\* sub in s
Contains(s, sub) ==
    \E k \in 0 .. Len(s) - Len(sub) : SubSeq(s, k + 1, k + Len(sub)) = sub

\* any(doc_name in prov or prov in doc_name for prov in provided_normalized)
is_provided(doc_name, provided_normalized) ==
    \E k \in 1 .. Len(provided_normalized) :
        \/ Contains(provided_normalized[k], doc_name)
        \/ Contains(doc_name, provided_normalized[k])

\* int((matched_mandatory / total_mandatory) * 100): the quotient of floats,
\* cut to an integer.  For every total below 50 the floats give the integer
\* quotient; int((29 / 50) * 100) is 57.
IntOfPercent(matched_mandatory, total_mandatory) ==
    (100 * matched_mandatory) \div total_mandatory

\* The loop of verify_documents over the requirements, from the k-th;
\* req_doc["name"] of a provided requirement without a name raises KeyError.
RECURSIVE VerifyLoop(_, _, _, _)
VerifyLoop(required, k, provided_normalized, acc) ==
    IF k > Len(required) THEN acc
    ELSE LET req_doc == required[k]
             doc_name == lower(GetName(req_doc))
             is_mandatory == GetMandatory(req_doc)
             doc_id == req_doc.id
             total == IF is_mandatory THEN acc.total_mandatory + 1
                      ELSE acc.total_mandatory
         IN IF is_provided(doc_name, provided_normalized)
            THEN IF ~req_doc.has_name THEN [acc EXCEPT !.raised = TRUE]
                 ELSE VerifyLoop(required, k + 1, provided_normalized,
                          [acc EXCEPT
                              !.total_mandatory = total,
                              !.provided = Append(@,
                                  [doc_id |-> doc_id, name |-> req_doc.name,
                                   status |-> "provided"]),
                              !.matched_mandatory =
                                  IF is_mandatory THEN @ + 1 ELSE @])
            ELSE IF is_mandatory
            THEN VerifyLoop(required, k + 1, provided_normalized,
                     [acc EXCEPT !.total_mandatory = total,
                                 !.missing_critical = Append(@, doc_id)])
            ELSE VerifyLoop(required, k + 1, provided_normalized,
                     [acc EXCEPT !.total_mandatory = total,
                                 !.missing_optional = Append(@, doc_id)])

\* DocumentAnalyzer.verify_documents: the verification it returns, or that it
\* raised
verify_documents(required, provided) ==
    LET provided_normalized == [k \in 1 .. Len(provided) |-> lower(provided[k])]
        acc == VerifyLoop(required, 1, provided_normalized,
                   [raised |-> FALSE, provided |-> <<>>, missing_critical |-> <<>>,
                    missing_optional |-> <<>>, total_mandatory |-> 0,
                    matched_mandatory |-> 0])
    IN IF acc.raised THEN [raised |-> TRUE]
       ELSE [raised |-> FALSE,
             provided |-> acc.provided,
             missing_critical |-> acc.missing_critical,
             missing_optional |-> acc.missing_optional,
             completeness_score |->
                 IF acc.total_mandatory > 0
                 THEN IntOfPercent(acc.matched_mandatory, acc.total_mandatory)
                 ELSE 100]

VerifyDocuments(required, provided) ==
    /\ ret' = verify_documents(required, provided)
    /\ lastCall' = [op |-> "verify_documents", required |-> required,
                    provided |-> provided]
    /\ UNCHANGED <<stages, history, now, stats, reviews>>

\* The requirements of the lists of SpecVerify, by what they are apart from
\* their id: mandatory, optional, mandatory by default, without a name.
RequirementKinds ==
    {Requirement("", "Ustav", TRUE), Requirement("", "Licenziya", FALSE),
     RequirementByDefault("", "Ustav OOO"), Requirement("", "Dogovor", TRUE),
     RequirementWithoutName("")}

\* The lists of at most n requirements, the k-th with the id doc_k.
RECURSIVE RequiredLists(_)
RequiredLists(n) ==
    IF n = 0 THEN {<<>>}
    ELSE LET shorter == RequiredLists(n - 1)
         IN shorter \cup
            {Append(l, [kind EXCEPT !.id = DocId(n)]) :
                l \in {s \in shorter : Len(s) = n - 1}, kind \in RequirementKinds}

\* The descriptions of the provided documents: none, one in another letter
\* case, longer ones that contain a name, an empty one.
ProvidedLists ==
    {<<>>, <<"USTAV">>, <<"ustav ooo 2026", "Licenziya N1">>, <<"">>}

\* A list of requirements is verified against the documents provided so far,
\* and again when the provided documents change.
VerifyProvided ==
    /\ lastCall.op = "init"
    /\ \E required \in RequiredLists(MaxRequired), provided \in ProvidedLists :
           VerifyDocuments(required, provided)

VerifyAgain ==
    /\ lastCall.op = "verify_documents"
    /\ \E provided \in ProvidedLists : VerifyDocuments(lastCall.required, provided)

NextVerify == VerifyProvided \/ VerifyAgain

SpecVerify == Init /\ [][NextVerify]_vars

---------------------------------------------------------------------------
(* The parsers of the model output (src/backend/analyzer.py) *)

\* The key words of the text output, in Latin letters; NumberSign stands for
\* the numero sign.
NumberKey == "Nomer:"
CustomerKey == "Zakazchik:"
ProcedureKey == "Tip procedury:"
HeaderWord == "Nazvanie"
MarkerSign == "==="
EndOfList == "KONEC SPISKA"
NumberSign == "#"
YesWord == "da"
DefaultFormat == "Kopiya"
DefaultReference == "Ne ukazano"

\* The part of s before the first sep, all of s when sep is not in it.
UpTo(s, sep) ==
    LET places == {k \in 1 .. Len(s) : Char(s, k) = sep}
    IN IF places = {} THEN s
       ELSE SubSeq(s, 1, (CHOOSE k \in places : \A j \in places : k <= j) - 1)

\* s.split(sep), sep one character
RECURSIVE SplitBy(_, _)
SplitBy(s, sep) ==
    LET first == UpTo(s, sep)
    IN IF Len(first) = Len(s) THEN <<s>>
       ELSE <<first>> \o SplitBy(SubSeq(s, Len(first) + 2, Len(s)), sep)

\* s.split(sep, 1)[1], sep being in s
AfterFirst(s, sep) == SubSeq(s, Len(UpTo(s, sep)) + 2, Len(s))

\* s.replace(c, ""), c one character
RECURSIVE Remove(_, _)
Remove(s, c) ==
    IF s = "" THEN ""
    ELSE IF Head(s) = c THEN Remove(Tail(s), c)
    ELSE Head(s) \o Remove(Tail(s), c)

\* s.isdigit()
isdigit(s) == s # "" /\ Chars(s) \subseteq Chars(Digits)

\* A value that may be None, or a key that may be absent: <<>> or <<value>>.
Absent == <<>>
Some(value) == <<value>>

\* The procurement_info of a line: the keys the line sets
ProcurementInfoOf(procurement_info, line) ==
    IF Contains(line, NumberKey)
    THEN [procurement_info EXCEPT !.number = Some(strip(AfterFirst(line, ":")))]
    ELSE IF Contains(line, CustomerKey)
    THEN [procurement_info EXCEPT !.customer = Some(strip(AfterFirst(line, ":")))]
    ELSE IF Contains(line, ProcedureKey)
    THEN [procurement_info EXCEPT !.procedure_type = Some(strip(AfterFirst(line, ":")))]
    ELSE procurement_info

\* The rows of _parse_text_output with the number of the row for the id.
DocumentsOfNumbered(documents, line) ==
    IF Contains(line, "|") /\ ~Contains(line, HeaderWord) /\ ~Contains(line, MarkerSign)
    THEN LET pieces == SplitBy(line, "|")
             parts == [k \in 1 .. Len(pieces) |-> strip(pieces[k])]
         IN IF Len(parts) >= 2 /\ isdigit(strip(Remove(parts[1], NumberSign)))
            THEN Append(documents,
                     [id |-> "doc_" \o strip(Remove(parts[1], NumberSign)),
                      name |-> parts[2],
                      mandatory |-> IF Len(parts) > 2
                                    THEN Contains(lower(parts[3]), YesWord) ELSE TRUE,
                      format |-> IF Len(parts) > 3 THEN parts[4] ELSE DefaultFormat,
                      validity |-> IF Len(parts) > 4 THEN Some(parts[5]) ELSE Absent,
                      source_reference |-> IF Len(parts) > 5 THEN parts[6]
                                           ELSE DefaultReference])
            ELSE documents
    ELSE documents

\* The documents after a line: the row of the line appended, if it is one
DocumentsOf(documents, line) ==
    IF Contains(line, "|") /\ ~Contains(line, HeaderWord) /\ ~Contains(line, MarkerSign)
    THEN LET pieces == SplitBy(line, "|")
             parts == [k \in 1 .. Len(pieces) |-> strip(pieces[k])]
         IN IF Len(parts) >= 2 /\ isdigit(strip(Remove(parts[1], NumberSign)))
            THEN Append(documents,
                     [id |-> DocId(Len(documents) + 1),
                      name |-> parts[2],
                      mandatory |-> IF Len(parts) > 2
                                    THEN Contains(lower(parts[3]), YesWord) ELSE TRUE,
                      format |-> IF Len(parts) > 3 THEN parts[4] ELSE DefaultFormat,
                      validity |-> IF Len(parts) > 4 THEN Some(parts[5]) ELSE Absent,
                      source_reference |-> IF Len(parts) > 5 THEN parts[6]
                                           ELSE DefaultReference])
            ELSE documents
    ELSE documents

\* The loop of _parse_text_output that reads on after the end-of-list line.
RECURSIVE TextLoopPastTheEnd(_, _, _)
TextLoopPastTheEnd(lines, k, acc) ==
    IF k > Len(lines) THEN acc
    ELSE LET line == strip(lines[k])
         IN TextLoopPastTheEnd(lines, k + 1,
                [procurement_info |-> ProcurementInfoOf(acc.procurement_info, line),
                 required_documents |-> DocumentsOf(acc.required_documents, line)])

\* The loop of _parse_text_output over the lines, from the k-th
RECURSIVE TextLoop(_, _, _)
TextLoop(lines, k, acc) ==
    IF k > Len(lines) THEN acc
    ELSE LET line == strip(lines[k])
             after == [procurement_info |->
                           ProcurementInfoOf(acc.procurement_info, line),
                       required_documents |->
                           DocumentsOf(acc.required_documents, line)]
         IN IF Contains(line, EndOfList) THEN after
            ELSE TextLoop(lines, k + 1, after)

\* DocumentAnalyzer._parse_text_output
_parse_text_output(text) ==
    TextLoop(SplitBy(text, "\n"), 1,
        [procurement_info |-> [number |-> Absent, customer |-> Absent,
                               procedure_type |-> Absent],
         required_documents |-> <<>>])

ParseTextOutput(text) ==
    /\ ret' = _parse_text_output(text)
    /\ lastCall' = [op |-> "_parse_text_output", text |-> text]
    /\ UNCHANGED <<stages, history, now, stats, reviews>>

\* The lines of the texts of SpecText: fields of the procurement, rows with
\* all columns and with two, a header, the end-of-list line, a row that holds
\* the end-of-list words, rows without a number, a line of text.
TextLines ==
    {"Nomer: T-1", " Zakazchik: OOO ", "1 | Ustav", "#2 | Licenziya | Net | Original | 1 god | p.3",
     "# | Nazvanie | Obyazatelnyy", "=== KONEC SPISKA ===", "7 | Akt | da, KONEC SPISKA",
     "x | Spravka | Da", "Vsego: 3", ""}

\* The texts of at most n lines
RECURSIVE TextsUpTo(_)
TextsUpTo(n) ==
    IF n = 1 THEN TextLines
    ELSE LET shorter == TextsUpTo(n - 1)
         IN shorter \cup {t \o "\n" \o line : t \in shorter, line \in TextLines}

ParseText ==
    /\ lastCall.op = "init"
    /\ \E text \in TextsUpTo(MaxLines) : ParseTextOutput(text)

\* The generator emits one more line and the output is parsed again.
ParseLongerText ==
    /\ lastCall.op = "_parse_text_output"
    /\ Len(SplitBy(lastCall.text, "\n")) < MaxLines
    /\ \E line \in TextLines : ParseTextOutput(lastCall.text \o "\n" \o line)

NextText == ParseText \/ ParseLongerText

SpecText == Init /\ [][NextText]_vars

\* The values of json: a str, an int (its digits), a bool, None, a list (a
\* sequence) and a dict (a function of its keys), each with its type.
JStr(s) == [type |-> "str", value |-> s]
JInt(digits) == [type |-> "int", value |-> digits]
JBool(b) == [type |-> "bool", value |-> b]
JNull == [type |-> "None"]
JList(items) == [type |-> "list", items |-> items]
JDict(items) == [type |-> "dict", items |-> items]

\* A dict with the key set to the value, whether or not it had the key.
SetKey(items, key, value) == (key :> value) @@ items

NoPairs == [key \in {} |-> key]

JsonFails == [ok |-> FALSE]
JsonValue(value, rest) == [ok |-> TRUE, value |-> value, rest |-> rest]

\* The digits at the start of s.
RECURSIVE LeadingDigits(_)
LeadingDigits(s) ==
    IF s # "" /\ Head(s) \in Chars(Digits) THEN Head(s) \o LeadingDigits(Tail(s))
    ELSE ""

\* A string of a json text, s being the text after its opening quote; the
\* texts of the model have no backslash.
JsonString(s) ==
    LET content == UpTo(s, "\"")
    IN IF Len(content) = Len(s) \/ Contains(content, "\n") \/ Contains(content, "\t")
       THEN JsonFails
       ELSE JsonValue(content, SubSeq(s, Len(content) + 2, Len(s)))

\* json.loads on the texts of the model (objects, arrays, strings, integers,
\* true, false, null): JsonScan reads the value at the start of s, JsonMembers
\* the members of an object from a key on, JsonElements the elements of an
\* array from a value on.
RECURSIVE JsonScan(_)
RECURSIVE JsonMembers(_, _)
RECURSIVE JsonElements(_, _)
JsonScan(s) ==
    IF s = "" THEN JsonFails
    ELSE IF Head(s) = "\"" THEN
        LET r == JsonString(Tail(s))
        IN IF r.ok THEN JsonValue(JStr(r.value), r.rest) ELSE JsonFails
    ELSE IF Head(s) = "{" THEN
        LET t == lstrip(Tail(s))
        IN IF StartsWith(t, "}") THEN JsonValue(JDict(NoPairs), Tail(t))
           ELSE JsonMembers(t, NoPairs)
    ELSE IF Head(s) = "[" THEN
        LET t == lstrip(Tail(s))
        IN IF StartsWith(t, "]") THEN JsonValue(JList(<<>>), Tail(t))
           ELSE JsonElements(t, <<>>)
    ELSE IF StartsWith(s, "true") THEN JsonValue(JBool(TRUE), SubSeq(s, 5, Len(s)))
    ELSE IF StartsWith(s, "false") THEN JsonValue(JBool(FALSE), SubSeq(s, 6, Len(s)))
    ELSE IF StartsWith(s, "null") THEN JsonValue(JNull, SubSeq(s, 5, Len(s)))
    ELSE IF Head(s) = "0" THEN JsonValue(JInt("0"), Tail(s))
    ELSE IF Head(s) \in Chars(Digits) THEN
        LET digits == LeadingDigits(s)
        IN JsonValue(JInt(digits), SubSeq(s, Len(digits) + 1, Len(s)))
    ELSE JsonFails

JsonMembers(s, items) ==
    IF ~StartsWith(s, "\"") THEN JsonFails
    ELSE LET key == JsonString(Tail(s))
         IN IF ~key.ok THEN JsonFails
            ELSE LET t == lstrip(key.rest)
                 IN IF ~StartsWith(t, ":") THEN JsonFails
                    ELSE LET r == JsonScan(lstrip(Tail(t)))
                         IN IF ~r.ok THEN JsonFails
                            ELSE LET u == lstrip(r.rest)
                                     after == SetKey(items, key.value, r.value)
                                 IN IF StartsWith(u, "}")
                                    THEN JsonValue(JDict(after), Tail(u))
                                    ELSE IF StartsWith(u, ",")
                                    THEN JsonMembers(lstrip(Tail(u)), after)
                                    ELSE JsonFails

JsonElements(s, items) ==
    LET r == JsonScan(s)
    IN IF ~r.ok THEN JsonFails
       ELSE LET u == lstrip(r.rest)
                after == Append(items, r.value)
            IN IF StartsWith(u, "]") THEN JsonValue(JList(after), Tail(u))
               ELSE IF StartsWith(u, ",") THEN JsonElements(lstrip(Tail(u)), after)
               ELSE JsonFails

\* json.loads(text): the value, or that it raised JSONDecodeError
JsonLoads(text) ==
    LET r == JsonScan(lstrip(text))
    IN IF r.ok /\ lstrip(r.rest) = "" THEN [ok |-> TRUE, value |-> r.value]
       ELSE JsonFails

\* s.find(sub) and s.rfind(sub): the first and the last index of sub in s, -1
\* when sub is not in s
Find(s, sub) ==
    IF Contains(s, sub)
    THEN CHOOSE k \in 0 .. Len(s) - Len(sub) :
             /\ SubSeq(s, k + 1, k + Len(sub)) = sub
             /\ \A j \in 0 .. k - 1 : SubSeq(s, j + 1, j + Len(sub)) # sub
    ELSE -1

RFind(s, sub) ==
    IF Contains(s, sub)
    THEN CHOOSE k \in 0 .. Len(s) - Len(sub) :
             /\ SubSeq(s, k + 1, k + Len(sub)) = sub
             /\ \A j \in k + 1 .. Len(s) - Len(sub) : SubSeq(s, j + 1, j + Len(sub)) # sub
    ELSE -1

\* The fence of a block of code, three grave accents in the code, a character
\* that a string of the model cannot hold.
Fence == "~~~"

\* re.search of a json block between two fences in the text, re.DOTALL:
\* group(1) of the match, or that there is none
JsonMatch(text) ==
    LET open == Find(text, Fence \o "json")
    IN IF open < 0 THEN [found |-> FALSE]
       ELSE LET body == lstrip(SubSeq(text, open + Len(Fence) + 5, Len(text)))
                close == Find(body, Fence)
            IN IF close < 0 THEN [found |-> FALSE]
               ELSE [found |-> TRUE, group |-> rstrip(SubSeq(body, 1, close))]

\* What _parse_json_output returns when nothing parses
EmptyAnalysis ==
    JDict(SetKey(SetKey(NoPairs, "procurement_info", JDict(NoPairs)),
                 "required_documents", JList(<<>>)))

\* The cut of _parse_json_output at the last '"}' and its closing by ']}'
TruncatedParse(text) ==
    LET last_bracket == RFind(text, "\"}")
    IN IF last_bracket = -1 THEN JsonFails
       ELSE JsonLoads(SubSeq(text, 1, last_bracket + 2) \o "]}")

\* DocumentAnalyzer._parse_json_output
_parse_json_output(text) ==
    LET direct == JsonLoads(text)
        json_match == JsonMatch(text)
        fenced == IF json_match.found THEN JsonLoads(json_match.group) ELSE JsonFails
        truncated == TruncatedParse(text)
    IN IF direct.ok THEN direct.value
       ELSE IF fenced.ok THEN fenced.value
       ELSE IF truncated.ok THEN truncated.value
       ELSE EmptyAnalysis

\* What fix_incomplete_json appends to the cut text
RestOfAnalysis ==
    ",\"document_verification\":{\"provided\":[],\"missing_critical\":[],"
    \o "\"missing_optional\":[],\"issues\":[]},"
    \o "\"completeness_score\":0,\"critical_warnings\":[]}"

\* fix_incomplete_json of backend/utils/deduplication.py: the text it returns
fix_incomplete_json(json_str) ==
    IF JsonLoads(json_str).ok THEN json_str
    ELSE LET last_complete_obj == RFind(json_str, "\"},")
             cut == SubSeq(json_str, 1, last_complete_obj + 2)
             truncated ==
                 (IF Contains(cut, "\"required_documents\"") THEN cut \o "]" ELSE cut)
                 \o RestOfAnalysis
         IN IF last_complete_obj # -1 /\ JsonLoads(truncated).ok THEN truncated
            ELSE ""

\* The json documents the generator is asked for, as it may write them: without
\* whitespace, with a space after the separators, with a line for each member,
\* and with a member that is no string at the end of the elements.
Compact == [colon |-> ":", comma |-> ",", open |-> "{", close |-> "}", flag |-> FALSE]
Spaced == [colon |-> ": ", comma |-> ", ", open |-> "{", close |-> "}", flag |-> FALSE]
Pretty == [colon |-> ": ", comma |-> ",\n", open |-> "{\n", close |-> "\n}", flag |-> FALSE]
Flagged == [colon |-> ":", comma |-> ",", open |-> "{", close |-> "}", flag |-> TRUE]
Styles == {Compact, Spaced, Pretty, Flagged}

Quoted(s) == "\"" \o s \o "\""

Member(style, key, value) == Quoted(key) \o style.colon \o value

ElementName(i) == "Document " \o ToString(i)

\* The i-th element of required_documents, as text and as value
ElementText(style, i) ==
    style.open \o Member(style, "id", Quoted(DocId(i)))
    \o style.comma \o Member(style, "name", Quoted(ElementName(i)))
    \o (IF style.flag THEN style.comma \o Member(style, "mandatory", "true") ELSE "")
    \o style.close

ElementValue(style, i) ==
    JDict(IF style.flag
          THEN ("id" :> JStr(DocId(i))) @@ ("name" :> JStr(ElementName(i)))
               @@ ("mandatory" :> JBool(TRUE))
          ELSE ("id" :> JStr(DocId(i))) @@ ("name" :> JStr(ElementName(i))))

\* The document up to the end of its n-th element
RECURSIVE DocumentUpTo(_, _)
DocumentUpTo(style, n) ==
    IF n = 0
    THEN style.open
         \o Member(style, "procurement_info",
                style.open \o Member(style, "number", Quoted("T-1")) \o style.close)
         \o style.comma \o Member(style, "required_documents", "[")
    ELSE DocumentUpTo(style, n - 1) \o (IF n > 1 THEN style.comma ELSE "")
         \o ElementText(style, n)

\* The document of n elements
DocumentText(style, n) == DocumentUpTo(style, n) \o "]" \o style.close

\* The lengths at which a document of n elements is cut inside the array of
\* its elements, after the first of them
CutPlaces(style, n) == Len(DocumentUpTo(style, 1)) .. Len(DocumentUpTo(style, n))

\* Texts that are no document of the generator
OtherTexts ==
    {"", "5", "[]", "null", "\"}", "{\"required_documents\": 5}",
     "Result: " \o Fence \o "json\n" \o DocumentText(Compact, 1) \o "\n" \o Fence,
     Fence \o "json\n" \o DocumentUpTo(Compact, 1)}

\* The calls of SpecJson tell how the text was made: the style and the number
\* of elements of the document, and the length it was cut to.
ParseJsonOutput(text, made) ==
    /\ ret' = _parse_json_output(text)
    /\ lastCall' = [op |-> "_parse_json_output", text |-> text, made |-> made]
    /\ UNCHANGED <<stages, history, now, stats, reviews>>

FixIncompleteJson(text, made) ==
    /\ ret' = JStr(fix_incomplete_json(text))
    /\ lastCall' = [op |-> "fix_incomplete_json", text |-> text, made |-> made]
    /\ UNCHANGED <<stages, history, now, stats, reviews>>

Whole(style, n) == [style |-> style, elements |-> n, cut |-> Len(DocumentText(style, n))]
CutAt(style, n, p) == [style |-> style, elements |-> n, cut |-> p]
NotMade == [style |-> Compact, elements |-> 0, cut |-> 0]

ParseJsonDocument ==
    /\ lastCall.op = "init"
    /\ \E style \in Styles, n \in 1 .. MaxElements :
           ParseJsonOutput(DocumentText(style, n), Whole(style, n))

\* The output of the generator is cut off and is parsed, by the same parser or
\* by the other.
ParseJsonCut ==
    /\ lastCall.op \in {"_parse_json_output", "fix_incomplete_json"}
    /\ lastCall.made.elements > 0
    /\ \E p \in CutPlaces(lastCall.made.style, lastCall.made.elements) \cap
                    (0 .. lastCall.made.cut) :
           ParseJsonOutput(SubSeq(lastCall.text, 1, p),
               CutAt(lastCall.made.style, lastCall.made.elements, p))

ParseJsonOther ==
    /\ lastCall.op = "init"
    /\ \E text \in OtherTexts : ParseJsonOutput(text, NotMade)

FixJsonDocument ==
    /\ lastCall.op = "init"
    /\ \E style \in Styles, n \in 1 .. MaxElements :
           FixIncompleteJson(DocumentText(style, n), Whole(style, n))

FixJsonCut ==
    /\ lastCall.op \in {"_parse_json_output", "fix_incomplete_json"}
    /\ lastCall.made.elements > 0
    /\ \E p \in CutPlaces(lastCall.made.style, lastCall.made.elements) \cap
                    (0 .. lastCall.made.cut) :
           FixIncompleteJson(SubSeq(lastCall.text, 1, p),
               CutAt(lastCall.made.style, lastCall.made.elements, p))

FixJsonOther ==
    /\ lastCall.op = "init"
    /\ \E text \in OtherTexts : FixIncompleteJson(text, NotMade)

NextJson ==
    \/ ParseJsonDocument \/ ParseJsonCut \/ ParseJsonOther
    \/ FixJsonDocument \/ FixJsonCut \/ FixJsonOther

SpecJson == Init /\ [][NextJson]_vars


\* The analysis of a documentation (analyze_documentation of backend/analyzer.py
\* and analyze of src/analyzer.py).  What the generator does with the prompt is
\* an input of the call: it gives an output, runs into the timeout of the
\* alarm, or its client raises.
Generated(raw_output) == [kind |-> "output", raw_output |-> raw_output]
TimedOut == [kind |-> "TimeoutError"]
ClientFailed == [kind |-> "Exception"]

\* str(e) and the rounded seconds of the analysis: a str and a float whose
\* values the model leaves open
Message == [type |-> "str"]
Seconds == [type |-> "float"]

\* The result of _parse_text_output as a value of json: the keys of
\* procurement_info that a line has set, and the rows
TextDocumentValue(doc) ==
    JDict(("id" :> JStr(doc.id)) @@ ("name" :> JStr(doc.name))
          @@ ("mandatory" :> JBool(doc.mandatory)) @@ ("format" :> JStr(doc.format))
          @@ ("validity" :> (IF doc.validity = Absent THEN JNull
                             ELSE JStr(doc.validity[1])))
          @@ ("source_reference" :> JStr(doc.source_reference)))

TextResultValue(result) ==
    JDict(("procurement_info" :>
               JDict([key \in {k \in {"number", "customer", "procedure_type"} :
                                   result.procurement_info[k] # Absent}
                          |-> JStr(result.procurement_info[key][1])]))
          @@ ("required_documents" :>
                  JList([k \in 1 .. Len(result.required_documents) |->
                            TextDocumentValue(result.required_documents[k])])))

\* _deduplicate_documents on a value of json.  The loop over None, an int or a
\* bool raises TypeError; the keys of a dict and the characters of a str are
\* no dicts and are passed over; a name that is no str has no lower() and
\* raises AttributeError.
DeduplicateValue(documents) ==
    IF documents.type \in {"None", "int", "bool"} THEN [raised |-> TRUE]
    ELSE IF documents.type # "list" THEN [raised |-> FALSE, value |-> JList(<<>>)]
    ELSE LET items == documents.items
             named(k) == items[k].type = "dict" /\ "name" \in DOMAIN items[k].items
         IN IF \E k \in 1 .. Len(items) : named(k) /\ items[k].items["name"].type # "str"
            THEN [raised |-> TRUE]
            ELSE LET entries ==
                         [k \in 1 .. Len(items) |->
                             [is_dict |-> items[k].type = "dict",
                              has_name |-> named(k),
                              name |-> IF named(k) THEN items[k].items["name"].value
                                       ELSE "",
                              at |-> k]]
                     unique == _deduplicate_documents(entries).required_documents
                 IN [raised |-> FALSE,
                     value |-> JList([j \in 1 .. Len(unique) |-> items[unique[j].at]])]

\* The first MAX_DOCUMENTS of the documents
Truncated(documents) ==
    IF Len(documents.items) > MAX_DOCUMENTS
    THEN JList(SubSeq(documents.items, 1, MAX_DOCUMENTS))
    ELSE documents

\* What analyze_documentation returns from its except branches
FailureResult(error) ==
    JDict(("error" :> JStr(error)) @@ ("message" :> Message)
          @@ ("required_documents" :> JList(<<>>)))

\* The one element of a set of one element: with it a value that is used
\* several times is computed once, { F(x) : x \in {value} } being the set of
\* the one F(value).
Only(S) == CHOOSE x \in S : TRUE

\* result.get("required_documents", [])
DocumentsOfResult(items) ==
    IF "required_documents" \in DOMAIN items THEN items["required_documents"]
    ELSE JList(<<>>)

\* The end of analyze_documentation: the documents are cut to MAX_DOCUMENTS and
\* the count, the time and the size of the model are added
WithMetadata(items, required_documents, model_size) ==
    JDict(SetKey(SetKey(SetKey(SetKey(items,
        "required_documents", required_documents),
        "total_count", JInt(ToString(Len(required_documents.items)))),
        "analysis_time", Seconds),
        "model_size", JStr(model_size)))

\* analyze_documentation from the parsed result on; result.get raises
\* AttributeError when the result is no dict
AnalysisOfResult(result, model_size) ==
    IF result.type # "dict" THEN FailureResult("analysis_failed")
    ELSE Only({IF unique.raised THEN FailureResult("analysis_failed")
               ELSE Only({WithMetadata(result.items, required_documents, model_size) :
                             required_documents \in {Truncated(unique.value)}}) :
                  unique \in {DeduplicateValue(DocumentsOfResult(result.items))}})

\* DocumentAnalyzer.analyze_documentation of backend/analyzer.py, for an
\* analyzer of the given model_size that has a client
analyze_documentation(doc_text, generation, output_format, model_size) ==
    IF strip(doc_text) = ""
    THEN JDict(("procurement_info" :> JDict(NoPairs))
               @@ ("required_documents" :> JList(<<>>))
               @@ ("total_count" :> JInt("0")) @@ ("analysis_time" :> JInt("0"))
               @@ ("model_size" :> JStr(model_size)))
    ELSE IF generation.kind = "TimeoutError" THEN FailureResult("timeout")
    ELSE IF generation.kind = "Exception" THEN FailureResult("analysis_failed")
    ELSE Only({AnalysisOfResult(result, model_size) :
                  result \in {IF output_format = "text" \/ model_size = "small"
                              THEN TextResultValue(_parse_text_output(generation.raw_output))
                              ELSE _parse_json_output(generation.raw_output)}})

\* The text between the first '{' and the last '}' that analyze loads
JsonText(result_text) ==
    LET json_start == Find(result_text, "{")
        json_end == RFind(result_text, "}") + 1
    IN IF json_start >= 0 /\ json_end > json_start
       THEN Some(SubSeq(result_text, json_start + 1, json_end))
       ELSE Absent

\* len(result.get("required_documents", [])) of analyze
TotalCount(items) == JInt(ToString(Len(DocumentsOfResult(items).items)))

\* The end of analyze: the count and the size of the model are added
WithCount(items, model_size) ==
    JDict(SetKey(SetKey(items, "total_count", TotalCount(items)),
                 "model_size", JStr(model_size)))

\* analyze from the loaded dict on
AnalysisOfLoaded(result, model_size) ==
    IF "required_documents" \notin DOMAIN result
    THEN [raised |-> FALSE, value |-> WithCount(result, model_size)]
    ELSE Only({IF unique.raised THEN [raised |-> TRUE]
               ELSE [raised |-> FALSE,
                     value |-> Only({WithCount(after, model_size) :
                                  after \in {SetKey(result, "required_documents",
                                                 Truncated(unique.value))}})] :
                  unique \in {DeduplicateValue(result["required_documents"])}})

\* DocumentAnalyzer.analyze of src/analyzer.py: the dict it returns, or that it
\* raises; provided_docs goes into the prompt only.
analyze(document_text, generation, model_size) ==
    IF strip(document_text) = ""
    THEN [raised |-> FALSE,
          value |-> JDict(("procurement_info" :> JDict(NoPairs))
                          @@ ("required_documents" :> JList(<<>>))
                          @@ ("total_count" :> JInt("0")))]
    ELSE IF generation.kind # "output" THEN [raised |-> TRUE]
    ELSE Only({IF json_text = Absent THEN [raised |-> TRUE]
               ELSE Only({IF ~loaded.ok THEN [raised |-> TRUE]
                          ELSE AnalysisOfLoaded(loaded.value.items, model_size) :
                             loaded \in {JsonLoads(json_text[1])}}) :
                  json_text \in {JsonText(generation.raw_output)}})

AnalyzeDocumentation(doc_text, generation, output_format, model_size) ==
    /\ \E result \in {analyze_documentation(doc_text, generation, output_format,
                                            model_size)} :
           ret' = [raised |-> FALSE, value |-> result]
    /\ lastCall' = [op |-> "analyze_documentation", doc_text |-> doc_text,
                    generation |-> generation, output_format |-> output_format,
                    model_size |-> model_size]
    /\ UNCHANGED <<stages, history, now, stats, reviews>>

Analyze(document_text, generation, model_size) ==
    /\ \E result \in {analyze(document_text, generation, model_size)} : ret' = result
    /\ lastCall' = [op |-> "analyze", doc_text |-> document_text,
                    generation |-> generation, output_format |-> "json",
                    model_size |-> model_size]
    /\ UNCHANGED <<stages, history, now, stats, reviews>>

\* The documentations and the outputs of the generator in SpecAnalysis: tables
\* of the text format with and without rows of the same name, documents of
\* json whole and cut, texts that are neither, and json whose
\* required_documents is no list of named documents.
Documentations == {"", " \n", "Zakupka T-1"}

AnalysisOutputs ==
    TextLines
    \cup {"Nomer: T-1\n1 | Ustav\n2 | ustav \n=== KONEC SPISKA ===",
          "1 | Ustav\n2 | Licenziya", "Ne znayu."}
    \cup {DocumentText(style, n) : style \in Styles, n \in 1 .. MaxElements}
    \cup {SubSeq(DocumentText(Compact, MaxElements), 1, p) :
              p \in CutPlaces(Compact, MaxElements)}
    \cup OtherTexts
    \cup {"{}", "{\"required_documents\":[{\"name\":5}]}",
          "{\"required_documents\":[5,{\"id\":\"doc_1\"},{\"name\":\"Ustav\"},"
          \o "{\"name\":\" ustav\"}]}",
          "Result: {\"procurement_info\":{},\"required_documents\":[]} .",
          "{\"required_documents\":null}"}

Generations == {Generated(text) : text \in AnalysisOutputs} \cup {TimedOut, ClientFailed}

ModelSizes == {"small", "large"}

AnalyzeDocumentationOf ==
    /\ lastCall.op = "init"
    /\ \E doc_text \in Documentations, generation \in Generations,
          output_format \in {"text", "json"}, model_size \in ModelSizes :
           AnalyzeDocumentation(doc_text, generation, output_format, model_size)

AnalyzeOf ==
    /\ lastCall.op = "init"
    /\ \E document_text \in Documentations, generation \in Generations,
          model_size \in ModelSizes :
           Analyze(document_text, generation, model_size)

NextAnalysis == AnalyzeDocumentationOf \/ AnalyzeOf

SpecAnalysis == Init /\ [][NextAnalysis]_vars

---------------------------------------------------------------------------
(* Properties *)

\* The step is a call of the controller method op.
Called(op) == lastCall'.op = op

\* The entries the step appended to the history.
Appended == SubSeq(history', Len(history) + 1, Len(history'))

HistoryGrows ==
    /\ Len(history') >= Len(history)
    /\ SubSeq(history', 1, Len(history)) = history

SomeCriticalUnchecked(stage) ==
    \E k \in 1 .. Len(stage.checklist) :
        stage.checklist[k].severity = "critical" /\ stage.checklist[k].checked = FALSE

LastEntry == history[Len(history)]

\* C1: execute_full_control evaluates the stages in the order Automatic, Legal,
\* Financial, Final and stops after the first stage that resolves to failed:
\* it returns k results, k the position of the first failed stage (4 if none),
\* and leaves status, issues and checked_at of the stages after k unchanged.
C1_EarlyStop ==
    [][Called("execute_full_control") =>
        LET results == ret'.stages
            k == Len(results)
        IN /\ k \in 1 .. 4
           /\ \A j \in 1 .. k :
                 /\ results[j].stage = StageNames[j - 1]
                 /\ results[j].status = stages'[j - 1].status
                 /\ stages'[j - 1].checked_at = now
           /\ \A j \in 1 .. (k - 1) : results[j].status # "failed"
           /\ (k < 4 => results[k].status = "failed")
           /\ \A i \in StageIndex : i >= k =>
                 /\ stages'[i].status = stages[i].status
                 /\ stages'[i].issues = stages[i].issues
                 /\ stages'[i].checked_at = stages[i].checked_at
    ]_vars

\* The control stopped at the Automatic stage and left a rejected Final stage as it was.
C1_Witness ==
    /\ lastCall.op = "execute_full_control"
    /\ Len(ret.stages) = 1
    /\ stages[3].status = "failed"
    /\ stages[3].checked_at = NoneTime

\* C2: approve_stage on a valid stage returns true, sets the status to passed and
\* appends one 'approve' entry if and only if no critical item of the stage is
\* unchecked; otherwise it returns false and changes neither the status, nor an
\* item, nor the history.
C2_ApprovalGuard ==
    [][(Called("approve_stage") /\ ValidIndex(lastCall'.stage_index)) =>
        LET i == lastCall'.stage_index IN
        IF ~SomeCriticalUnchecked(stages[i])
        THEN /\ ret' = TRUE
             /\ stages'[i].status = "passed"
             /\ HistoryGrows
             /\ Len(Appended) = 1
             /\ Appended[1].action = "approve"
             /\ Appended[1].stage_name = StageNames[i]
        ELSE /\ ret' = FALSE
             /\ stages'[i].status = stages[i].status
             /\ \A j \in StageIndex : stages'[j].checklist = stages[j].checklist
             /\ history' = history
    ]_vars

\* An approval went through on a stage that was not yet passed.
C2_Witness ==
    /\ lastCall.op = "approve_stage"
    /\ ret = TRUE
    /\ Len(history) > 0
    /\ LastEntry.action = "approve"
    /\ LastEntry.status_before = "warning"
    /\ stages[lastCall.stage_index].status = "passed"

\* The stage was approved and not rejected since.
ApprovedSince(i) ==
    \E k \in 1 .. Len(history) :
        /\ history[k].action = "approve"
        /\ history[k].stage_name = StageNames[i]
        /\ \A m \in (k + 1) .. Len(history) :
              ~(history[m].action = "reject" /\ history[m].stage_name = StageNames[i])

\* C3: once approve_stage has returned true for a stage, the stage stays passed
\* through later execute_full_control and update_checklist_item calls; only
\* reject_stage on it moves it out of passed.
C3_MonotonicApproval ==
    \A i \in StageIndex : ApprovedSince(i) => stages[i].status = "passed"

\* C4: whenever the Final stage is passed, the Automatic, Legal and Financial
\* stages are passed.
C4_FinalRequiresPrior ==
    stages[3].status = "passed" =>
        \A i \in 0 .. 2 : stages[i].status = "passed"

\* The overall status the claim gives for the statuses of the evaluated stages.
OverallOf(statuses) ==
    IF "failed" \in statuses THEN "failed"
    ELSE IF "warning" \in statuses THEN "warning"
    ELSE IF "pending" \in statuses THEN "pending"
    ELSE "passed"

\* C5: the overall_status execute_full_control returns is failed if an evaluated
\* stage is failed, else warning if one is warning, else pending if one is
\* pending, else passed, over the stages evaluated in that call.
C5_OverallStatus ==
    [][Called("execute_full_control") =>
        LET results == ret'.stages
            evaluated == {i \in StageIndex : stages'[i].checked_at = now}
        IN /\ Len(results) = Cardinality(evaluated)
           /\ ret'.overall_status = OverallOf({stages'[i].status : i \in evaluated})
    ]_vars

\* A control in which a stage warned and others are pending.
C5_Witness ==
    /\ lastCall.op = "execute_full_control"
    /\ ret.overall_status = "warning"
    /\ Len(ret.stages) = 4
    /\ ret.stages[2].status = "pending"

\* The status the claim gives the Automatic stage for a package.
AutomaticStatusOf(package) ==
    LET docs == package.documents IN
    IF \/ Len(docs) < package.required_documents
       \/ \E k \in 1 .. Len(docs) : docs[k].status = "expired"
    THEN "failed"
    ELSE IF \E k \in 1 .. Len(docs) : ~docs[k].exists THEN "warning"
    ELSE "passed"

\* C6: the Automatic check resolves to failed if and only if fewer documents are
\* supplied than required or a supplied document has status "expired"; otherwise
\* to warning if and only if a supplied document's file is missing; otherwise to
\* passed (an oversize file alone leaves it passed).
C6_AutomaticStatus ==
    lastCall.op = "execute_full_control" =>
        /\ stages[0].status = AutomaticStatusOf(lastCall.package)
        /\ ret.stages[1].status = AutomaticStatusOf(lastCall.package)

\* C7: reject_stage on a valid stage returns true, sets the stage to failed
\* whatever its status and checklist, appends one 'reject' entry from the
\* previous status to failed, and changes no other stage and no checklist item.
C7_RejectUnconditional ==
    [][(Called("reject_stage") /\ ValidIndex(lastCall'.stage_index)) =>
        LET i == lastCall'.stage_index IN
        /\ ret' = TRUE
        /\ stages'[i].status = "failed"
        /\ HistoryGrows
        /\ Len(Appended) = 1
        /\ Appended[1].action = "reject"
        /\ Appended[1].stage_name = StageNames[i]
        /\ Appended[1].status_before = stages[i].status
        /\ Appended[1].status_after = "failed"
        /\ \A j \in StageIndex \ {i} : stages'[j] = stages[j]
        /\ stages'[i] = [stages[i] EXCEPT !.status = "failed"]
    ]_vars

\* A stage that had passed was rejected.
C7_Witness ==
    /\ lastCall.op = "reject_stage"
    /\ ret = TRUE
    /\ LastEntry.action = "reject"
    /\ LastEntry.status_before = "passed"
    /\ stages[lastCall.stage_index].status = "failed"

ItemIds(stage) == {stage.checklist[k].id : k \in 1 .. Len(stage.checklist)}

\* C8: update_checklist_item with an id of the stage sets checked, checked_by and
\* checked_at of that item alone, changes no other item and no status, and
\* appends one 'checklist_update' entry with equal status_before and
\* status_after; with an id the stage does not have it returns false, changes
\* nothing and appends nothing.
C8_UpdateOneItem ==
    [][(Called("update_checklist_item") /\ ValidIndex(lastCall'.stage_index)) =>
        LET i == lastCall'.stage_index
            c == lastCall'.checked
            old == stages[i].checklist
            new == stages'[i].checklist
        IN IF lastCall'.item_id \in ItemIds(stages[i])
           THEN /\ ret' = TRUE
                /\ Len(new) = Len(old)
                /\ \A k \in 1 .. Len(old) :
                      IF old[k].id = lastCall'.item_id
                      THEN /\ new[k].checked = c
                           /\ new[k].checked_by =
                                 IF c THEN lastCall'.user.user_name ELSE None
                           /\ new[k].checked_at = IF c THEN now ELSE NoneTime
                           /\ new[k].id = old[k].id
                           /\ new[k].severity = old[k].severity
                           /\ new[k].category = old[k].category
                      ELSE new[k] = old[k]
                /\ \A j \in StageIndex \ {i} : stages'[j] = stages[j]
                /\ stages'[i] = [stages[i] EXCEPT !.checklist = new]
                /\ HistoryGrows
                /\ Len(Appended) = 1
                /\ Appended[1].action = "checklist_update"
                /\ Appended[1].stage_name = StageNames[i]
                /\ Appended[1].status_before = stages[i].status
                /\ Appended[1].status_after = stages[i].status
           ELSE /\ ret' = FALSE
                /\ stages' = stages
                /\ history' = history
    ]_vars

\* An item checked by an earlier call was unchecked again.
C8_Witness ==
    /\ lastCall.op = "update_checklist_item"
    /\ ret = TRUE
    /\ lastCall.checked = FALSE
    /\ Len(history) >= 2
    /\ history[Len(history) - 1].action = "checklist_update"
    /\ history[Len(history) - 1].stage_name = LastEntry.stage_name
    /\ \E k \in 1 .. Len(stages[lastCall.stage_index].checklist) :
          LET item == stages[lastCall.stage_index].checklist[k] IN
          /\ item.id = lastCall.item_id
          /\ item.checked = FALSE
          /\ item.comment = "note"

ActionOf(op) ==
    CASE op = "update_checklist_item" -> "checklist_update"
      [] op = "approve_stage" -> "approve"
      [] OTHER -> "reject"

\* C9: the history only grows at its tail; execute_full_control appends one
\* 'check' entry per evaluated stage, from the status before to the status after
\* the check; a successful update_checklist_item, approve_stage or reject_stage
\* appends one entry, a refused one none.
C9_HistoryAppendOnly ==
    [][/\ HistoryGrows
       /\ IF Called("execute_full_control")
          THEN /\ Len(Appended) = Len(ret'.stages)
               /\ \A j \in 1 .. Len(Appended) :
                     /\ Appended[j].action = "check"
                     /\ Appended[j].stage_name = StageNames[j - 1]
                     /\ Appended[j].status_before = stages[j - 1].status
                     /\ Appended[j].status_after = stages'[j - 1].status
          ELSE IF ret' = TRUE
               THEN /\ Len(Appended) = 1
                    /\ Appended[1].action = ActionOf(lastCall'.op)
               ELSE history' = history
    ]_vars

\* A control ran on a history that already held entries, and changed a status.
C9_Witness ==
    /\ lastCall.op = "execute_full_control"
    /\ Len(history) > Len(ret.stages)
    /\ history[1].action = "reject"
    /\ LastEntry.action = "check"
    /\ LastEntry.status_before = "failed"
    /\ LastEntry.status_after = "pending"

\* The stage with the items of `marked` checked and no other.
StageWith(stage, marked) ==
    [stage EXCEPT !.checklist = [k \in 1 .. Len(stage.checklist) |->
        IF k \in marked
        THEN mark_checked(stage.checklist[k], "Ivanov", "", 1)
        ELSE [stage.checklist[k] EXCEPT !.checked = FALSE, !.checked_by = None,
                                        !.checked_at = NoneTime]]]

\* The check of stage i, whatever items of its checklist are checked.
CheckOfEveryChecklist(i, stage, package, t) ==
    LET n == Len(stage.checklist) IN
    \A marked \in SUBSET (1 .. n) :
        StageCheck(i, StageWith(stage, marked), package, t).status
            = IF marked = 1 .. n THEN "passed" ELSE "pending"

\* C10: a check of the Legal, Financial or Final stage sets the status to
\* pending if and only if an item of the stage is unchecked and to passed
\* otherwise; it never sets failed, which these stages reach only through
\* reject_stage.  The first conjunct states it of the stages as the controller
\* holds them and of every other marking of their checklists.
C10_ManualStageCheck ==
    [][/\ Called("execute_full_control") =>
            \A i \in 1 .. 3 : stages'[i].checked_at = now =>
                /\ stages'[i].status =
                       IF \E k \in 1 .. Len(stages[i].checklist) :
                              stages[i].checklist[k].checked = FALSE
                       THEN "pending" ELSE "passed"
                /\ CheckOfEveryChecklist(i, stages[i], lastCall'.package, now)
       /\ \A i \in 1 .. 3 :
            (stages'[i].status = "failed" /\ stages[i].status # "failed") =>
                (Called("reject_stage") /\ lastCall'.stage_index = i)
    ]_vars

\* A control found the Final checklist complete and the Legal one not.
C10_Witness ==
    /\ lastCall.op = "execute_full_control"
    /\ Len(ret.stages) = 4
    /\ ret.stages[4].status = "passed"
    /\ ret.stages[2].status = "pending"
    /\ stages[3].status = "passed"
    /\ LastEntry.status_before = "pending"

\* C11: update_checklist_item, approve_stage and reject_stage called with a
\* stage index outside 0..3, negative ones included, return false, change no
\* stage and no checklist item and append no history entry; get_stage_checklist
\* returns the empty list for such an index and the stage's checklist otherwise.
C11_IndexOutOfRange ==
    [][/\ (/\ lastCall'.op \in {"update_checklist_item", "approve_stage", "reject_stage"}
           /\ lastCall'.stage_index \notin 0 .. 3)
          => /\ ret' = FALSE
             /\ stages' = stages
             /\ history' = history
       /\ Called("get_stage_checklist")
          => /\ ret' = IF lastCall'.stage_index \in 0 .. 3
                       THEN stages[lastCall'.stage_index].checklist
                       ELSE <<>>
             /\ stages' = stages
             /\ history' = history
    ]_vars

\* reject_stage was called with index -1 on a controller whose Final stage was
\* not failed, and refused.
C11_Witness ==
    /\ lastCall.op = "reject_stage"
    /\ lastCall.stage_index = -1
    /\ ret = FALSE
    /\ Len(history) > 0
    /\ stages[3].status # "failed"

ApiRequests ==
    {"execute_control", "update_checklist", "get_all_checklists", "get_control_history"}

\* C12: every package review has a controller and a history of its own: the
\* answer to a request made for a package (the result of the control, the
\* checklists, the history) is the answer of a controller that has served the
\* requests made for that package and no other, however the requests for the
\* two packages interleave.
C12_PackageIsolation ==
    lastCall.op \in ApiRequests => ret = reviews[lastCall.package_id].response

PlaceOfLastAccepted(documents, unique_docs) ==
    CHOOSE p \in 1 .. Len(documents) :
        /\ documents[p].is_dict
        /\ GetName(documents[p]) = unique_docs[Len(unique_docs)].name
        /\ \A q \in 1 .. (p - 1) :
              ~(documents[q].is_dict /\ GetName(documents[q]) = documents[p].name)

NormalizedName(op, doc) ==
    CASE op = "deduplicate" -> normalize_name(GetName(doc))
      [] op = "utils_deduplicate" -> _normalize_document_name(GetName(doc))
      [] OTHER -> CollapseWhitespace(strip(lower(GetName(doc))))

Similarity(op, name1, name2) ==
    IF op = "deduplicate" THEN calculate_similarity(name1, name2)
    ELSE ratio(name1, name2)

Deduplicators == {"deduplicate", "utils_deduplicate", "_deduplicate_documents"}

\* The call returned a list.
Returned == lastCall.op \in Deduplicators /\ ~ret.raised

\* C14: in the output of deduplicate the similarity of the normalized names of
\* every two distinct records is strictly below the similarity threshold 0.85;
\* two records whose similarity is equal to the threshold are never both in it.
C14_PairsBelowThreshold ==
    Returned =>
        LET out == ret.required_documents IN
        \A i, j \in 1 .. Len(out) : i # j =>
            ~Geq(Similarity(lastCall.op, NormalizedName(lastCall.op, out[i]),
                            NormalizedName(lastCall.op, out[j])),
                 similarity_threshold)

\* C15: deduplication is idempotent: a deduplicator given the list it has just
\* returned returns the same records, in the same order, with the same ids.
C15_Idempotent ==
    [][(/\ Returned
        /\ lastCall'.op = lastCall.op
        /\ lastCall'.documents = ret.required_documents)
       => /\ ~ret'.raised
          /\ ret'.required_documents = ret.required_documents
    ]_vars

\* deduplicate was given the two records it had returned for a list of three,
\* one of which it had removed, and returned them.
C15_Witness ==
    /\ lastCall.op = "deduplicate"
    /\ ~ret.raised
    /\ Len(lastCall.documents) = 2
    /\ ret.required_documents = lastCall.documents
    /\ stats.total_input = 2
    /\ stats.duplicates_removed = 1

\* The list the deduplicator called by op returns for documents; <<>> if it raises.
OutputOf(op, documents) ==
    LET r == CASE op = "deduplicate" -> deduplicate(InitStats, documents).result
               [] op = "utils_deduplicate" -> utils_deduplicate(documents)
               [] OTHER -> _deduplicate_documents(documents)
    IN IF r.raised THEN <<>> ELSE r.required_documents

\* The record b of the output is the record a of the input; deduplicate of
\* deduplication.py gives it a new id.
SameRecord(op, a, b) ==
    IF op = "deduplicate" THEN a.is_dict /\ [a EXCEPT !.id = b.id] = b ELSE a = b

\* out[i ..] is found, in order, in documents[p ..].
RECURSIVE IsSubsequenceFrom(_, _, _, _, _)
IsSubsequenceFrom(op, out, i, documents, p) ==
    IF i > Len(out) THEN TRUE
    ELSE IF p > Len(documents) THEN FALSE
    ELSE IF SameRecord(op, documents[p], out[i])
    THEN IsSubsequenceFrom(op, out, i + 1, documents, p + 1)
    ELSE IsSubsequenceFrom(op, out, i, documents, p + 1)

\* A name without its letter case and the amount of its whitespace.
NameKey(doc) == CollapseWhitespace(strip(lower(doc.name)))

Named(doc) == doc.is_dict /\ doc.has_name

\* C16: deduplication is first-accepted-wins and order-preserving: the output
\* is a subsequence of the input in the original order; what is accepted of a
\* prefix of the input stays, in its place, whatever records follow; of the
\* records whose names differ in letter case or amount of whitespace only, no
\* more than one is in the output, and it is the earliest of them.
C16_FirstAcceptedWins ==
    Returned =>
        LET op == lastCall.op
            documents == lastCall.documents
            out == ret.required_documents
        IN /\ IsSubsequenceFrom(op, out, 1, documents, 1)
           /\ \A m \in 0 .. Len(documents) :
                 LET first == OutputOf(op, SubSeq(documents, 1, m))
                 IN Len(first) <= Len(out) /\ SubSeq(out, 1, Len(first)) = first
           /\ \A i \in 1 .. Len(out) :
                 /\ \A j \in 1 .. Len(out) :
                       (i # j /\ Named(out[i]) /\ Named(out[j]))
                           => NameKey(out[i]) # NameKey(out[j])
                 /\ Named(out[i]) =>
                       LET p == CHOOSE p \in 1 .. Len(documents) :
                                   /\ Named(documents[p])
                                   /\ NameKey(documents[p]) = NameKey(out[i])
                                   /\ \A q \in 1 .. (p - 1) :
                                         ~(/\ Named(documents[q])
                                           /\ NameKey(documents[q]) = NameKey(out[i]))
                       IN SameRecord(op, documents[p], out[i])

\* _deduplicate_documents kept the first of two records whose names differ in
\* letter case and whitespace.
C16_Witness ==
    /\ lastCall.op = "_deduplicate_documents"
    /\ Len(lastCall.documents) = 2
    /\ lastCall.documents[1].name = "Ustav"
    /\ lastCall.documents[2].name = " USTAV  "
    /\ ret.required_documents = <<lastCall.documents[1]>>

\* C17: after deduplication the k records of the output carry the ids doc_1,
\* doc_2, ..., doc_k in the order of the output, whatever ids the records of
\* the input carried.
C17_SequentialIds ==
    Returned =>
        \A i \in 1 .. Len(ret.required_documents) :
            ret.required_documents[i].id = DocId(i)

\* An entry a deduplicator is to drop: not a dict, without a name, or with a
\* name that the deduplicator normalizes to the empty string.
InvalidEntry(op, doc) ==
    \/ ~doc.is_dict
    \/ ~doc.has_name
    \/ NormalizedName(op, doc) = ""

RECURSIVE ValidEntries(_, _)
ValidEntries(op, documents) ==
    IF documents = <<>> THEN <<>>
    ELSE IF InvalidEntry(op, Head(documents)) THEN ValidEntries(op, Tail(documents))
    ELSE <<Head(documents)>> \o ValidEntries(op, Tail(documents))

\* C18: a deduplicator never raises on an invalid entry and drops it: no entry
\* that is not a dict, has no name, or has a name that normalizes to the empty
\* string is in the output, and the output is that of the valid entries alone.
C18_InvalidEntriesDropped ==
    lastCall.op \in Deduplicators =>
        /\ ~ret.raised
        /\ \A i \in 1 .. Len(ret.required_documents) :
               ~InvalidEntry(lastCall.op, ret.required_documents[i])
        /\ ret.required_documents =
               OutputOf(lastCall.op, ValidEntries(lastCall.op, lastCall.documents))

SimilarityCalls == {"calculate_similarity", "_calculate_similarity"}

SimilarityOf(op, str1, str2) ==
    IF op = "calculate_similarity" THEN calculate_similarity(str1, str2)
    ELSE _calculate_similarity(str1, str2)

SameFloat(x, y) == x.num * y.den = y.num * x.den

\* C19: the similarity of two strings is in [0, 1] and is the similarity of the
\* two in the other order; the similarity of a non-empty string to itself is 1,
\* and the similarity of the empty string to any string, itself included, is 0.
C19_SimilarityContract ==
    lastCall.op \in SimilarityCalls =>
        /\ Geq(ret, Ratio(0, 1)) /\ Geq(Ratio(1, 1), ret)
        /\ SameFloat(ret, SimilarityOf(lastCall.op, lastCall.str2, lastCall.str1))
        /\ (lastCall.str1 = lastCall.str2 /\ lastCall.str1 # "")
               => SameFloat(ret, Ratio(1, 1))
        /\ (lastCall.str1 = "" \/ lastCall.str2 = "") => SameFloat(ret, Ratio(0, 1))

MandatoryOnes(required) ==
    LET IsMandatory(req_doc) == GetMandatory(req_doc)
    IN SelectSeq(required, IsMandatory)

\* The requirements of a list that a provided description matches.
MatchedOnes(required, provided) ==
    LET IsMatched(req_doc) ==
            \E k \in 1 .. Len(provided) :
                \/ Contains(lower(provided[k]), lower(GetName(req_doc)))
                \/ Contains(lower(GetName(req_doc)), lower(provided[k]))
    IN SelectSeq(required, IsMatched)

\* The integer nearest to 100 * matched / total.
RoundOfPercent(matched, total) == (200 * matched + total) \div (2 * total)

\* C20: the completeness_score of verify_documents is the quotient of the
\* matched mandatory requirements by the mandatory requirements, times 100,
\* rounded to the nearest integer, in 0 .. 100; it is 100 when no requirement
\* is mandatory, and it is the score of the mandatory requirements alone.
C20_CompletenessScore ==
    (lastCall.op = "verify_documents" /\ ~ret.raised) =>
        LET mandatory == MandatoryOnes(lastCall.required)
            matched == MatchedOnes(mandatory, lastCall.provided)
        IN /\ ret.completeness_score \in 0 .. 100
           /\ ret.completeness_score =
                  IF Len(mandatory) = 0 THEN 100
                  ELSE RoundOfPercent(Len(matched), Len(mandatory))
           /\ ret.completeness_score =
                  verify_documents(mandatory, lastCall.provided).completeness_score

\* Some provided description, without its letter case, contains the name of
\* the requirement or is contained in it.
MatchedBy(req_doc, provided) ==
    \E k \in 1 .. Len(provided) :
        \/ Contains(lower(provided[k]), lower(GetName(req_doc)))
        \/ Contains(lower(GetName(req_doc)), lower(provided[k]))

\* C21: verify_documents puts every requirement into exactly one of provided,
\* missing_critical and missing_optional: into provided if and only if a
\* provided description contains its name or is contained in it, whatever the
\* letter case; otherwise its id into missing_critical when it is mandatory and
\* into missing_optional when it is not.  Nothing is provided when no
\* description is given.
C21_Classification ==
    lastCall.op = "verify_documents" =>
        /\ ~ret.raised
        /\ Len(ret.provided) + Len(ret.missing_critical) + Len(ret.missing_optional)
               = Len(lastCall.required)
        /\ \A k \in 1 .. Len(lastCall.required) :
               LET req_doc == lastCall.required[k]
                   matched == MatchedBy(req_doc, lastCall.provided)
               IN /\ (\E i \in 1 .. Len(ret.provided) :
                          ret.provided[i].doc_id = req_doc.id) <=> matched
                  /\ (req_doc.id \in Range(ret.missing_critical))
                         <=> (~matched /\ GetMandatory(req_doc))
                  /\ (req_doc.id \in Range(ret.missing_optional))
                         <=> (~matched /\ ~GetMandatory(req_doc))
        /\ lastCall.provided = <<>> => ret.provided = <<>>

LinesOf(text) == SplitBy(text, "\n")

\* The place of the first line with the end-of-list words, 0 when there is none.
FirstEndOfList(lines) ==
    IF \E k \in 1 .. Len(lines) : Contains(lines[k], EndOfList)
    THEN CHOOSE k \in 1 .. Len(lines) :
             /\ Contains(lines[k], EndOfList)
             /\ \A j \in 1 .. k - 1 : ~Contains(lines[j], EndOfList)
    ELSE 0

\* The lines joined by line feeds.
RECURSIVE JoinLines(_)
JoinLines(lines) ==
    IF Len(lines) = 1 THEN lines[1]
    ELSE lines[1] \o "\n" \o JoinLines(Tail(lines))

\* C22: the first line with the end-of-list words ends the parsing of a text:
\* the result is that of the text up to that line, so no row and no field of
\* the procurement of a later line is in it.
C22_EndOfListStops ==
    lastCall.op = "_parse_text_output" =>
        LET lines == LinesOf(lastCall.text)
            end == FirstEndOfList(lines)
        IN end > 0 => ret = _parse_text_output(JoinLines(SubSeq(lines, 1, end)))

\* A row and a field of the procurement after the end-of-list line are not in
\* the result.
C22_Witness ==
    /\ lastCall.op = "_parse_text_output"
    /\ lastCall.text = "=== KONEC SPISKA ===\n1 | Ustav\nNomer: T-1"
    /\ ret.required_documents = <<>>
    /\ ret.procurement_info.number = Absent

\* The columns of a line, without the whitespace around them.
Columns(line) ==
    LET pieces == SplitBy(line, "|")
    IN [k \in 1 .. Len(pieces) |-> strip(pieces[k])]

\* A line that is a row of the list: it has columns, the first a number (with
\* or without the numero sign), and it is no header and no marker line.
IsRowLine(line) ==
    /\ Len(Columns(line)) >= 2
    /\ isdigit(strip(Remove(Columns(line)[1], NumberSign)))
    /\ ~Contains(line, HeaderWord)
    /\ ~Contains(line, MarkerSign)

\* The lines a text is read up to: all, or up to the first end-of-list line.
LinesRead(text) ==
    LET lines == LinesOf(text)
        end == FirstEndOfList(lines)
    IN IF end > 0 THEN SubSeq(lines, 1, end) ELSE lines

\* C23: of the lines _parse_text_output reads, the rows of the list, and only
\* they, give one record each, in their order: the i-th record has the id
\* doc_i and the second column of the i-th row for its name, is mandatory when
\* the row has no third column, and has the format "Kopiya" when the row has no
\* fourth.
C23_RowsAreRecords ==
    lastCall.op = "_parse_text_output" =>
        LET rows == SelectSeq(LinesRead(lastCall.text), IsRowLine)
            documents == ret.required_documents
        IN /\ Len(documents) = Len(rows)
           /\ \A i \in 1 .. Len(documents) :
                  LET columns == Columns(rows[i])
                  IN /\ documents[i].id = DocId(i)
                     /\ documents[i].name = columns[2]
                     /\ Len(columns) < 3 => documents[i].mandatory
                     /\ Len(columns) < 4 => documents[i].format = DefaultFormat

\* A header, a row with all its columns and a row with two give two records.
C23_Witness ==
    /\ lastCall.op = "_parse_text_output"
    /\ lastCall.text =
           "# | Nazvanie | Obyazatelnyy\n#2 | Licenziya | Net | Original | 1 god | p.3\n1 | Ustav"
    /\ Len(ret.required_documents) = 2
    /\ ret.required_documents[1].id = "doc_1"
    /\ ret.required_documents[1].name = "Licenziya"
    /\ ~ret.required_documents[1].mandatory
    /\ ret.required_documents[2] =
           [id |-> "doc_2", name |-> "Ustav", mandatory |-> TRUE, format |-> "Kopiya",
            validity |-> Absent, source_reference |-> "Ne ukazano"]

\* The elements of the document of a call that are whole in the text.
CompleteElements(made) ==
    Cardinality({i \in 1 .. made.elements :
                    Len(DocumentUpTo(made.style, i)) <= made.cut})

\* The text of the call is a document cut off inside the array of its
\* elements, after the first of them.
CutInsideTheArray ==
    /\ lastCall.op \in {"_parse_json_output", "fix_incomplete_json"}
    /\ lastCall.made.elements > 0
    /\ lastCall.made.cut \in CutPlaces(lastCall.made.style, lastCall.made.elements)

\* What the call makes of its text: the value of _parse_json_output, and the
\* value of the text of fix_incomplete_json.
RepairedParse ==
    IF lastCall.op = "_parse_json_output" THEN [ok |-> TRUE, value |-> ret]
    ELSE JsonLoads(ret.value)

\* C24: the parse of a json document that is cut off inside the array
\* required_documents, after one whole element or more, has for its
\* required_documents the whole elements before the cut, in their order, and
\* nothing else.
C24_RepairKeepsCompleteElements ==
    CutInsideTheArray =>
        /\ RepairedParse.ok
        /\ RepairedParse.value.type = "dict"
        /\ "required_documents" \in DOMAIN RepairedParse.value.items
        /\ RepairedParse.value.items["required_documents"] =
               JList([i \in 1 .. CompleteElements(lastCall.made) |->
                         ElementValue(lastCall.made.style, i)])


\* The parsers of json do not understand the text: none of the three attempts
\* of _parse_json_output gives a value, analyze finds no text in braces that
\* loads.
UnderstoodAsJson(text) ==
    \/ JsonLoads(text).ok
    \/ JsonMatch(text).found /\ JsonLoads(JsonMatch(text).group).ok
    \/ TruncatedParse(text).ok

NotUnderstood ==
    /\ lastCall.op \in {"analyze_documentation", "analyze"}
    /\ strip(lastCall.doc_text) # ""
    /\ lastCall.generation.kind = "output"
    /\ \/ /\ lastCall.op = "analyze_documentation"
          /\ lastCall.output_format = "json" /\ lastCall.model_size = "large"
          /\ ~UnderstoodAsJson(lastCall.generation.raw_output)
       \/ /\ lastCall.op = "analyze"
          /\ \/ JsonText(lastCall.generation.raw_output) = Absent
             \/ ~JsonLoads(JsonText(lastCall.generation.raw_output)[1]).ok

\* C25: when the output of the generator is not understood, the analysis does
\* not raise, and its result holds procurement_info = {} and
\* required_documents = [] together with an error tag.
C25_DegradedResult ==
    NotUnderstood =>
        /\ ~ret.raised
        /\ ret.value.type = "dict"
        /\ "procurement_info" \in DOMAIN ret.value.items
        /\ ret.value.items["procurement_info"] = JDict(NoPairs)
        /\ "required_documents" \in DOMAIN ret.value.items
        /\ ret.value.items["required_documents"] = JList(<<>>)
        /\ "error" \in DOMAIN ret.value.items


\* The item auto_07 of the Automatic stage
Signatures(stgs) == stgs[0].checklist[7]

OnlyChecksIn(entries) == \A k \in 1 .. Len(entries) : entries[k].action = "check"

\* C26: the check of the Automatic stage never checks auto_07: an
\* execute_full_control leaves the item as it is, the item is unchecked in
\* every state that execute_full_control calls alone have reached, and it
\* becomes checked only by an update_checklist_item on it.
C26_SignaturesManualOnly ==
    [][/\ Signatures(stages').id = "auto_07"
       /\ Called("execute_full_control") => Signatures(stages') = Signatures(stages)
       /\ OnlyChecksIn(history') => ~Signatures(stages').checked
       /\ (~Signatures(stages).checked /\ Signatures(stages').checked) =>
             /\ Called("update_checklist_item")
             /\ lastCall'.stage_index = 0
             /\ lastCall'.item_id = "auto_07"
             /\ lastCall'.checked
             /\ ret' = TRUE
    ]_vars

\* The Automatic check has checked the items after auto_07 and before it, and
\* no other operation has been called.
C26_Witness ==
    /\ lastCall.op = "execute_full_control"
    /\ OnlyChecksIn(history)
    /\ stages[0].checklist[6].checked
    /\ stages[0].checklist[8].checked
    /\ ~Signatures(stages).checked


\* What an item is created with, and what marking and unmarking write
Created(item) ==
    [id |-> item.id, description |-> item.description,
     category |-> item.category, severity |-> item.severity]

CheckedFields(item) == <<item.checked, item.checked_by, item.checked_at>>

\* C27: over the operations of the controller every stage keeps its items in
\* their order, each with the id, description, category and severity it was
\* created with; checked, checked_by and checked_at of an item of the Legal,
\* Financial or Final stage change only in an update_checklist_item on that
\* item; and an item is checked if and only if checked_by and checked_at are
\* set.
C27_ChecklistFrame ==
    [][\A i \in StageIndex :
        LET old == stages[i].checklist
            new == stages'[i].checklist
        IN /\ Len(new) = Len(InitStages[i].checklist)
           /\ \A k \in 1 .. Len(new) :
                 /\ Created(new[k]) = Created(InitStages[i].checklist[k])
                 /\ new[k].checked <=>
                        (new[k].checked_by # None /\ new[k].checked_at # NoneTime)
                 /\ (i # 0 /\ CheckedFields(new[k]) # CheckedFields(old[k])) =>
                        /\ Called("update_checklist_item")
                        /\ lastCall'.stage_index = i
                        /\ lastCall'.item_id = old[k].id
    ]_vars

\* An item of the Legal stage was checked by a user, then the stages were
\* checked and the Legal stage was rejected: the item is as the user left it.
C27_Witness ==
    /\ lastCall.op = "reject_stage"
    /\ lastCall.stage_index = 1
    /\ ret = TRUE
    /\ \E k \in 1 .. Len(history) : history[k].action = "check" /\ history[k].stage_name = "Legal"
    /\ stages[1].checklist[1].checked
    /\ stages[1].checklist[1].checked_by = "Ivanov"


\* What the Automatic check finds in the documents of a package
Complete(package) == Len(package.documents) >= package.required_documents

NoFileMissing(package) ==
    \A k \in 1 .. Len(package.documents) : package.documents[k].exists

NoFileOversize(package) ==
    \A k \in 1 .. Len(package.documents) :
        package.documents[k].exists => package.documents[k].size <= MaxFileSize

NoneExpired(package) ==
    \A k \in 1 .. Len(package.documents) :
        package.documents[k].exists => package.documents[k].status # "expired"

\* C28: after every check of the Automatic stage the automatic items tell of
\* the package just checked: auto_01 is checked if and only if the package has
\* at least as many documents as are required, auto_02 if and only if no file
\* is missing, auto_03 if and only if no file is oversize, auto_04 if and only
\* if no checked document is expired, whatever an earlier run has checked.
C28_ItemsReflectPackage ==
    [][Called("execute_full_control") =>
        LET package == lastCall'.package
            checklist == stages'[0].checklist
        IN /\ checklist[1].checked <=> Complete(package)
           /\ checklist[2].checked <=> NoFileMissing(package)
           /\ checklist[3].checked <=> NoFileOversize(package)
           /\ checklist[4].checked <=> NoneExpired(package)
    ]_vars


\* The stage has been rejected and not approved since: of the approve and
\* reject entries of the stage the last is a reject.
Rejected(i) ==
    \E k \in 1 .. Len(history) :
        /\ history[k].action = "reject"
        /\ history[k].stage_name = StageNames[i]
        /\ \A j \in (k + 1) .. Len(history) :
              ~(history[j].action = "approve" /\ history[j].stage_name = StageNames[i])

\* C29: a rejection lasts until an approval: an execute_full_control on a
\* rejected stage leaves it failed, and when it comes to the stage it reports
\* it as failed and stops at it.
C29_RejectionLasts ==
    [][\A i \in StageIndex :
        (Rejected(i) /\ Called("execute_full_control")) =>
            /\ stages'[i].status = "failed"
            /\ Len(ret'.stages) <= i + 1
            /\ Len(ret'.stages) = i + 1 => ret'.stages[i + 1].status = "failed"
    ]_vars


\* C30: the statistics a call of deduplicate emits tell of that call alone,
\* also when the deduplicator has been called before: total_input is the
\* length of the input, total_output the length of the output,
\* duplicates_removed counts records of this input, so that with total_output
\* it is at most total_input, and truncated_by_limit is set only when this
\* input was cut at the limit.
C30_StatsOfThisCall ==
    [][(Called("deduplicate") /\ "deduplication_stats" \in DOMAIN ret') =>
        LET emitted == ret'.deduplication_stats
            documents == lastCall'.documents
        IN /\ emitted.total_input = Len(documents)
           /\ emitted.total_output = Len(ret'.required_documents)
           /\ emitted.duplicates_removed + emitted.total_output <= emitted.total_input
           /\ emitted.truncated_by_limit =>
                 /\ Len(documents) > MAX_DOCUMENTS
                 /\ Len(ret'.required_documents) = MAX_DOCUMENTS
    ]_vars

====
